---------------------------- MODULE Spec2Model ----------------------------
(***************************************************************************)
(* Model of the OSHA hazard analysis utilities of VISTA:                   *)
(*   src/vesta/utils/osha_analysis/risk_scorer.py                          *)
(*   src/vesta/utils/osha_analysis/rag_retriever.py                        *)
(*   src/vesta/utils/osha_analysis/indexer.py (the schema of the corpus)   *)
(* Scores are Python floats in the source.  Here every intermediate value  *)
(* is an exact rational [n, d] (d > 0) and every value that the source     *)
(* passes through round(x, 1) is an integer number of tenths.  The model   *)
(* agrees with the floats wherever the exact value is no tie between two   *)
(* tenths; at a tie the model rounds half-to-even, where the source rounds *)
(* by the binary representation of the float.                              *)
(***************************************************************************)
EXTENDS Integers, Sequences, FiniteSets, TLC

VARIABLES
    corpus,      \* rows of the incidents table of osha_incidents.db
    hs_called,   \* compute_hazard_score has returned
    hs_args,     \* its arguments <<frequency_count, fatal_count, avg_dafw, severe_count>>
    hs_out,      \* its result (final_score and score_components, in tenths)
    gr_called,   \* the grading tail of compute_site_risk has run
    gr_score,    \* the site_score it graded, in tenths
    gr_out,      \* grade, grade_explanation, recommendation
    sr_called,   \* compute_site_risk has returned
    registry,    \* its hazard_registry, in insertion order
    sr_out,      \* its result
    rn_called,   \* retrieve_narratives has returned
    rn_args,     \* its arguments [hazard_label, category, k]
    rn_out,      \* its result and the candidate id sets of its three passes
    qe_called,   \* the category of qe_category has been expanded
    qe_category, \* a hazard category string
    qe_out,      \* get_category_expansion and get_category_filter of it
    fo_called,   \* a row has been turned into a result dict
    fo_row,      \* the row and the passes that found it
    fo_out,      \* the result dict built from it
    db_exists,   \* osha_incidents.db exists
    cache,       \* the file osha_stats_cache.json
    gs_called,   \* get_all_stats or get_headline_stat has returned
    gs_args,     \* the function called and its category argument
    gs_out,      \* its result
    procs,       \* the calls in flight, each with its position and locals
    session,     \* st.session_state of app.py
    uploader,    \* a file is held by the st.file_uploader widget
    player,      \* start_time of the st.video rendered by the last script run
    seek,        \* the argument of the seek_to call of the last click, if any
    cs_called,   \* the composite site score of cs_scores has been computed
    cs_scores,   \* a list of hazard final scores, in tenths
    cs_out       \* its composite site score, in tenths

(* the state of the scorer calls, and of the retriever calls *)
scorer_vars == <<hs_called, hs_args, hs_out, gr_called, gr_score, gr_out,
                 sr_called, registry, sr_out>>
retriever_vars == <<rn_called, rn_args, rn_out, qe_called, qe_category, qe_out,
                    fo_called, fo_row, fo_out>>
(* the store, the statistics calls, the calls in flight, the composite *)
stats_vars == <<db_exists, cache, gs_called, gs_args, gs_out, procs,
                cs_called, cs_scores, cs_out>>
(* the state of the Streamlit front end *)
ui_vars == <<session, uploader, player, seek>>
service_vars == <<stats_vars, ui_vars>>

vars == <<corpus, hs_called, hs_args, hs_out, gr_called, gr_score, gr_out,
          sr_called, registry, sr_out, rn_called, rn_args, rn_out,
          qe_called, qe_category, qe_out, fo_called, fo_row, fo_out,
          db_exists, cache, gs_called, gs_args, gs_out, procs,
          cs_called, cs_scores, cs_out, session, uploader, player, seek>>

---------------------------------------------------------------------------
(* Bounds of the model *)
MaxCount == 2
MaxDen == 2

(* Constants of risk_scorer.py *)
FreqCap == 500
FreqPoints == 25
FatalPoints == 35
DafwCap == 90
SevPoints == 25
SeverePoints == 15
ScoreCap == 100

---------------------------------------------------------------------------
(* Exact rationals standing for Python floats *)
Abs(x) == IF x < 0 THEN -x ELSE x

RECURSIVE GCD(_, _)
GCD(a, b) == IF b = 0 THEN a ELSE GCD(b, a % b)

Rat(n, d) ==
    LET s == IF d < 0 THEN -1 ELSE 1
        g == GCD(Abs(n), Abs(d))
    IN  [n |-> (s * n) \div g, d |-> (s * d) \div g]

RInt(k) == [n |-> k, d |-> 1]

RLe(x, y) == x.n * y.d <= y.n * x.d

RMin(x, y) == IF RLe(x, y) THEN x ELSE y

RMul(x, y) == Rat(x.n * y.n, x.d * y.d)

RAdd(x, y) ==
    LET l == (x.d \div GCD(x.d, y.d)) * y.d
    IN  Rat(x.n * (l \div x.d) + y.n * (l \div y.d), l)

(* round(x, ndigits) as the integer round(x * m), m = 10^ndigits *)
RoundScaled(x, m) ==
    LET q == m * x.n
        fl == q \div x.d
        rem == q - fl * x.d
    IN  IF 2 * rem < x.d THEN fl
        ELSE IF 2 * rem > x.d THEN fl + 1
        ELSE IF fl % 2 = 0 THEN fl ELSE fl + 1

(* round(x, 1), as a number of tenths *)
RoundTenths(x) == RoundScaled(x, 10)

(* a number of tenths as a rational *)
Tenths(t) == Rat(t, 10)

---------------------------------------------------------------------------
(* compute_hazard_score *)
ZeroScore ==
    [raised |-> "", final_score |-> 0, frequency_score |-> 0,
     fatality_score |-> 0, severity_score |-> 0, severe_case_score |-> 0]

RaisedScore(e) == [ZeroScore EXCEPT !.raised = e]

(* line 152 *)
frequency_score(frequency_count) ==
    RMul(RMin(Rat(frequency_count, FreqCap), RInt(1)), RInt(FreqPoints))

(* lines 156-157 *)
fatality_score(fatal_count, frequency_count) ==
    RMul(Rat(fatal_count, frequency_count), RInt(FatalPoints))

severity_score_Inverted(avg_dafw) ==
    RMul(RAdd(RInt(1), RMul(RInt(-1), RMin(RMul(avg_dafw, Rat(1, DafwCap)), RInt(1)))),
         RInt(SevPoints))

(* line 162 *)
severity_score(avg_dafw) ==
    RMul(RMin(RMul(avg_dafw, Rat(1, DafwCap)), RInt(1)), RInt(SevPoints))

(* lines 166-167 *)
severe_case_score(severe_count, frequency_count) ==
    RMul(Rat(severe_count, frequency_count), RInt(SeverePoints))

final_score_Uncapped(raw_score) == RoundTenths(raw_score)

(* line 171 *)
final_score(raw_score) == RoundTenths(RMin(raw_score, RInt(ScoreCap)))

(* lines 150-180: the component formulas, reached with frequency_count # 0;
   a division by frequency_count = 0 raises ZeroDivisionError *)
ScoreFormulas(frequency_count, fatal_count, avg_dafw, severe_count) ==
    IF frequency_count = 0 THEN RaisedScore("ZeroDivisionError")
    ELSE
    LET fr == frequency_score(frequency_count)
        ft == fatality_score(fatal_count, frequency_count)
        sv == severity_score(avg_dafw)
        sc == severe_case_score(severe_count, frequency_count)
        raw_score == RAdd(RAdd(RAdd(fr, ft), sv), sc)
    IN  [raised |-> "",
         final_score |-> final_score(raw_score),
         frequency_score |-> RoundTenths(fr),
         fatality_score |-> RoundTenths(ft),
         severity_score |-> RoundTenths(sv),
         severe_case_score |-> RoundTenths(sc)]

compute_hazard_score_NoShortCircuit(frequency_count, fatal_count, avg_dafw, severe_count) ==
    ScoreFormulas(frequency_count, fatal_count, avg_dafw, severe_count)

(* lines 121-180 *)
compute_hazard_score(frequency_count, fatal_count, avg_dafw, severe_count) ==
    IF frequency_count = 0 THEN ZeroScore
    ELSE ScoreFormulas(frequency_count, fatal_count, avg_dafw, severe_count)

---------------------------------------------------------------------------
(* Strings: str.lower, the "in" operator and SQLite's LIKE '%p%' *)
UpperLetters == "ABCDEFGHIJKLMNOPQRSTUVWXYZ"
LowerLetters == "abcdefghijklmnopqrstuvwxyz"

LowerChar(c) ==
    IF \E i \in 1 .. Len(UpperLetters) : SubSeq(UpperLetters, i, i) = c
    THEN LET i == CHOOSE j \in 1 .. Len(UpperLetters) : SubSeq(UpperLetters, j, j) = c
         IN  SubSeq(LowerLetters, i, i)
    ELSE c

RECURSIVE Lower(_)
Lower(str) ==
    IF Len(str) = 0 THEN ""
    ELSE LowerChar(SubSeq(str, 1, 1)) \o Lower(SubSeq(str, 2, Len(str)))

(* needle in hay *)
Contains(hay, needle) ==
    \E i \in 1 .. (Len(hay) - Len(needle) + 1) :
        SubSeq(hay, i, i + Len(needle) - 1) = needle

(* The lower-case forms of the strings of the model, computed once *)
KnownStrings ==
    {"Falling Debris", "Floor Hole",
     "Fall to lower level", "Struck by object", "Ladder", "Forklift",
     "Employee fell from a ladder", "A pallet struck the employee",
     "Fall Hazard", "Struck By",
     "fall", "contact with electric", "contact with wiring", "electric", "wiring",
     "power line", "electrocuted", "electric shock", "struck", "caught", "compress",
     "expos", "chemical", "toxic", "fall on same level", "slip", "trip", "fire",
     "explosion", "burn",
     "Worker slipped off the roof", "Roof", "Confined space entry", "Tank",
     "Operator's error while entering a tank", "Confined Space", "Operator's Error",
     "Electrical Hazard", "Caught In/Between", "Slip/Trip", "Fire/Explosion", ""}

LowerTable == [str \in KnownStrings |-> Lower(str)]

lower(str) == IF str \in KnownStrings THEN LowerTable[str] ELSE Lower(str)

(* value LIKE '%pat%': a substring match that ignores the case of ASCII letters *)
LikeContains(value, pat) == Contains(lower(value), lower(pat))

---------------------------------------------------------------------------
(* SQL WHERE conditions as expressions over a row of incidents *)
Like(field, pat) == [op |-> "like", field |-> field, pat |-> pat]
Or(args) == [op |-> "or", args |-> args]
And(args) == [op |-> "and", args |-> args]

RECURSIVE Holds(_, _)
Holds(cond, row) ==
    IF cond.op = "like" THEN LikeContains(row[cond.field], cond.pat)
    ELSE IF cond.op = "or" THEN \E i \in 1 .. Len(cond.args) : Holds(cond.args[i], row)
    ELSE \A i \in 1 .. Len(cond.args) : Holds(cond.args[i], row)

(* A string literal of an SQL text, scanned from the character after its
   opening quote: two quotes in a row stand for one quote of the value, a
   single quote closes the literal and leaves the rest of the text. *)
RECURSIVE SqlLiteral(_)
SqlLiteral(text) ==
    IF Len(text) = 0 THEN [closed |-> FALSE, value |-> "", rest |-> ""]
    ELSE IF SubSeq(text, 1, 1) = "'" THEN
        IF Len(text) >= 2 /\ SubSeq(text, 2, 2) = "'"
        THEN LET after == SqlLiteral(SubSeq(text, 3, Len(text)))
             IN  [after EXCEPT !.value = "'" \o @]
        ELSE [closed |-> TRUE, value |-> "", rest |-> SubSeq(text, 2, Len(text))]
    ELSE LET after == SqlLiteral(SubSeq(text, 2, Len(text)))
         IN  [after EXCEPT !.value = SubSeq(text, 1, 1) \o @]

(* f"{field} LIKE '%{text}%'" as SQLite reads it once it stands in a
   statement: the substring condition on the value of the literal when the
   literal closes at the end of the clause, and a clause that does not
   parse (sqlite3.OperationalError on execute) otherwise.  The texts of the
   model hold no LIKE wildcard, and leave no rest after a closed literal
   that SQLite could read as a continuation of the clause. *)
InterpolatedLike(field, text) ==
    LET literal == SqlLiteral("%" \o text \o "%'")
    IN  IF literal.closed /\ literal.rest = ""
        THEN Like(field, SubSeq(literal.value, 2, Len(literal.value) - 1))
        ELSE [op |-> "malformed", field |-> field, pat |-> text]

(* risk_scorer.get_category_filter, lines 26-55 *)
get_category_filter(category) ==
    LET category_lower == lower(category)
    IN  IF Contains(category_lower, "fall") THEN Like("event_title_pred", "fall")
        ELSE IF Contains(category_lower, "electric") THEN
            Or(<<Like("event_title_pred", "contact with electric"),
                 Like("event_title_pred", "contact with wiring"),
                 Like("source_title_pred", "electric"),
                 Like("source_title_pred", "wiring"),
                 Like("source_title_pred", "power line"),
                 Like("nar_what_happened", "electrocuted"),
                 Like("nar_what_happened", "electric shock")>>)
        ELSE IF Contains(category_lower, "struck") THEN Like("event_title_pred", "struck")
        ELSE IF Contains(category_lower, "caught") \/ Contains(category_lower, "compress") THEN
            Or(<<Like("event_title_pred", "caught"), Like("event_title_pred", "compress")>>)
        ELSE IF Contains(category_lower, "chemical") THEN
            And(<<Like("event_title_pred", "expos"),
                  Or(<<Like("source_title_pred", "chemical"),
                       Like("source_title_pred", "toxic")>>)>>)
        ELSE IF Contains(category_lower, "slip") \/ Contains(category_lower, "trip") THEN
            Or(<<Like("event_title_pred", "fall on same level"),
                 Like("event_title_pred", "slip"),
                 Like("event_title_pred", "trip")>>)
        ELSE IF Contains(category_lower, "fire") THEN
            Or(<<Like("event_title_pred", "fire"),
                 Like("event_title_pred", "explosion"),
                 Like("event_title_pred", "burn")>>)
        ELSE InterpolatedLike("event_title_pred", category)

---------------------------------------------------------------------------
(* Grade bands, lines 63-69 and 77-83 *)
BandA == 20
BandB == 40
BandC == 60
BandD == 80

get_grade_ExclusiveLower(score) ==
    IF 0 < score /\ score <= 10 * BandA THEN
        <<"A", "A: 0-20 risk range. Low risk site. Standard safety protocols sufficient.">>
    ELSE IF 10 * BandA < score /\ score <= 10 * BandB THEN
        <<"B", "B: 21-40 risk range. Moderate risk. Enhanced safety measures recommended.">>
    ELSE IF 10 * BandB < score /\ score <= 10 * BandC THEN
        <<"C", "C: 41-60 risk range. Elevated risk. Regular safety audits required.">>
    ELSE IF 10 * BandC < score /\ score <= 10 * BandD THEN
        <<"D", "D: 61-80 risk range. High-risk site. Immediate corrective action recommended.">>
    ELSE
        <<"F", "F: 81-100 risk range. Critical risk. Site shutdown may be required until hazards are mitigated.">>

(* get_grade, lines 58-72; score in tenths *)
get_grade(score) ==
    IF score <= 10 * BandA THEN
        <<"A", "A: 0-20 risk range. Low risk site. Standard safety protocols sufficient.">>
    ELSE IF score <= 10 * BandB THEN
        <<"B", "B: 21-40 risk range. Moderate risk. Enhanced safety measures recommended.">>
    ELSE IF score <= 10 * BandC THEN
        <<"C", "C: 41-60 risk range. Elevated risk. Regular safety audits required.">>
    ELSE IF score <= 10 * BandD THEN
        <<"D", "D: 61-80 risk range. High-risk site. Immediate corrective action recommended.">>
    ELSE
        <<"F", "F: 81-100 risk range. Critical risk. Site shutdown may be required until hazards are mitigated.">>

get_recommendation_StrictBounds(score) ==
    IF score < 10 * BandA THEN "Low-risk site. Standard safety protocols sufficient."
    ELSE IF score < 10 * BandB THEN "Moderate-risk site. Enhanced safety measures recommended."
    ELSE IF score < 10 * BandC THEN "Elevated-risk site. Regular safety audits and training required."
    ELSE IF score < 10 * BandD THEN
        "High-risk site. Daily safety briefings required. Immediate corrective action needed."
    ELSE "Critical-risk site. Consider site shutdown until hazards are mitigated. Emergency safety protocols required."

(* get_recommendation, lines 75-86; score in tenths *)
get_recommendation(score) ==
    IF score <= 10 * BandA THEN "Low-risk site. Standard safety protocols sufficient."
    ELSE IF score <= 10 * BandB THEN "Moderate-risk site. Enhanced safety measures recommended."
    ELSE IF score <= 10 * BandC THEN "Elevated-risk site. Regular safety audits and training required."
    ELSE IF score <= 10 * BandD THEN
        "High-risk site. Daily safety briefings required. Immediate corrective action needed."
    ELSE "Critical-risk site. Consider site shutdown until hazards are mitigated. Emergency safety protocols required."

(* lines 274-287: what compute_site_risk derives from site_score *)
GradeOf(site_score) ==
    [grade |-> get_grade(site_score)[1],
     grade_explanation |-> get_grade(site_score)[2],
     recommendation |-> get_recommendation(site_score)]

---------------------------------------------------------------------------
(* The four aggregate queries, run over the rows of incidents *)
Matching(rows, category_filter) ==
    {i \in 1 .. Len(rows) : Holds(category_filter, rows[i])}

RECURSIVE SumOver(_, _)
SumOver(f, S) ==
    IF S = {} THEN 0
    ELSE LET x == CHOOSE y \in S : TRUE IN f[x] + SumOver(f, S \ {x})

(* query_frequency, lines 89-94 *)
query_frequency(rows, category_filter) ==
    Cardinality(Matching(rows, category_filter))

(* query_fatality_count, lines 97-102 *)
query_fatality_count(rows, category_filter) ==
    Cardinality({i \in Matching(rows, category_filter) : rows[i].incident_outcome = 1})

(* query_avg_dafw, lines 105-110: AVG is NULL over no rows, and then 0.0 *)
query_avg_dafw(rows, category_filter) ==
    LET S == {i \in Matching(rows, category_filter) : rows[i].dafw_num_away > 0}
    IN  IF S = {} THEN RInt(0)
        ELSE Rat(SumOver([i \in S |-> rows[i].dafw_num_away], S), Cardinality(S))

(* query_severe_count, lines 113-118 *)
query_severe_count(rows, category_filter) ==
    Cardinality({i \in Matching(rows, category_filter) : rows[i].dafw_num_away >= 30})

---------------------------------------------------------------------------
(* compute_site_risk *)
TopN == 5

(* lines 228-249: the breakdown row of one registry entry, from what
   its four queries returned *)
HazardRowFrom(entry, frequency_count, fatal_count, avg_dafw, severe_count) ==
    LET fatality_rate ==
            IF frequency_count > 0 THEN Rat(fatal_count, frequency_count) ELSE RInt(0)
        severe_rate ==
            IF frequency_count > 0 THEN Rat(severe_count, frequency_count) ELSE RInt(0)
        scored == compute_hazard_score(frequency_count, fatal_count, avg_dafw, severe_count)
    IN  [hazard_id |-> entry.hazard_id,
         label |-> entry.label,
         category |-> entry.category,
         frequency_count |-> frequency_count,
         fatal_count |-> fatal_count,
         fatality_rate |-> RoundScaled(fatality_rate, 1000),
         avg_dafw |-> RoundTenths(avg_dafw),
         severe_rate |-> RoundScaled(severe_rate, 1000),
         final_score |-> scored.final_score,
         score_components |->
             [frequency_score |-> scored.frequency_score,
              fatality_score |-> scored.fatality_score,
              severity_score |-> scored.severity_score,
              severe_case_score |-> scored.severe_case_score]]

HazardRow_ByLabel(entry, rows) ==
    LET category_filter == get_category_filter(entry.label)
    IN  HazardRowFrom(entry,
                      query_frequency(rows, category_filter),
                      query_fatality_count(rows, category_filter),
                      query_avg_dafw(rows, category_filter),
                      query_severe_count(rows, category_filter))

(* lines 214-249: the breakdown row of one registry entry *)
HazardRow(entry, rows) ==
    LET category_filter == get_category_filter(entry.category)
    IN  HazardRowFrom(entry,
                      query_frequency(rows, category_filter),
                      query_fatality_count(rows, category_filter),
                      query_avg_dafw(rows, category_filter),
                      query_severe_count(rows, category_filter))

(* breakdown.sort(key=final_score, reverse=True): stable, the largest first *)
RECURSIVE InsertRow(_, _)
InsertRow(row, sorted) ==
    IF sorted = << >> THEN <<row>>
    ELSE IF Head(sorted).final_score >= row.final_score
         THEN <<Head(sorted)>> \o InsertRow(row, Tail(sorted))
         ELSE <<row>> \o sorted

RECURSIVE SortRows(_, _)
SortRows(rest, acc) ==
    IF rest = << >> THEN acc
    ELSE SortRows(Tail(rest), InsertRow(Head(rest), acc))

RECURSIVE InsertRowAscending(_, _)
InsertRowAscending(row, sorted) ==
    IF sorted = << >> THEN <<row>>
    ELSE IF Head(sorted).final_score <= row.final_score
         THEN <<Head(sorted)>> \o InsertRowAscending(row, Tail(sorted))
         ELSE <<row>> \o sorted

RECURSIVE SortRowsAscending(_, _)
SortRowsAscending(rest, acc) ==
    IF rest = << >> THEN acc
    ELSE SortRowsAscending(Tail(rest), InsertRowAscending(Head(rest), acc))

SortBreakdown_Ascending(breakdown) == SortRowsAscending(breakdown, << >>)

(* line 254 *)
SortBreakdown(breakdown) == SortRows(breakdown, << >>)

(* sorted(hazard_scores, reverse=True), line 266 *)
RECURSIVE InsertScore(_, _)
InsertScore(x, sorted) ==
    IF sorted = << >> THEN <<x>>
    ELSE IF Head(sorted) >= x
         THEN <<Head(sorted)>> \o InsertScore(x, Tail(sorted))
         ELSE <<x>> \o sorted

RECURSIVE SortScores(_, _)
SortScores(rest, acc) ==
    IF rest = << >> THEN acc
    ELSE SortScores(Tail(rest), InsertScore(Head(rest), acc))

RECURSIVE SeqSum(_)
SeqSum(seq) == IF seq = << >> THEN 0 ELSE Head(seq) + SeqSum(Tail(seq))

Dominance_Unsorted(hazard_scores) ==
    LET highest == Tenths(hazard_scores[1])
        others == Tail(hazard_scores)
        mean_others ==
            IF others # << >> THEN RMul(Tenths(SeqSum(others)), Rat(1, Len(others)))
            ELSE RInt(0)
    IN  RAdd(RMul(highest, Rat(6, 10)), RMul(mean_others, Rat(4, 10)))

(* lines 265-270: highest * 0.6 + mean(others) * 0.4, scores in tenths *)
Dominance(hazard_scores) ==
    LET sorted_scores == SortScores(hazard_scores, << >>)
        highest == Tenths(sorted_scores[1])
        others == Tail(sorted_scores)
        mean_others ==
            IF others # << >> THEN RMul(Tenths(SeqSum(others)), Rat(1, Len(others)))
            ELSE RInt(0)
    IN  RAdd(RMul(highest, Rat(6, 10)), RMul(mean_others, Rat(4, 10)))

CompositeScore_MeanOfAll(hazard_scores) ==
    IF hazard_scores = << >> THEN 0
    ELSE IF Len(hazard_scores) = 1 THEN hazard_scores[1]
    ELSE LET sorted_scores == SortScores(hazard_scores, << >>)
         IN  RoundTenths(RAdd(RMul(Tenths(sorted_scores[1]), Rat(6, 10)),
                              RMul(RMul(Tenths(SeqSum(sorted_scores)),
                                        Rat(1, Len(sorted_scores))), Rat(4, 10))))

CompositeScore_NoSingleBranch(hazard_scores) ==
    IF hazard_scores = << >> THEN 0
    ELSE RoundTenths(Dominance(hazard_scores))

(* lines 259-272: the composite site score, in tenths *)
CompositeScore(hazard_scores) ==
    IF hazard_scores = << >> THEN 0
    ELSE IF Len(hazard_scores) = 1 THEN RoundTenths(Tenths(hazard_scores[1]))
    ELSE RoundTenths(Dominance(hazard_scores))

(* lines 253-298: the result, from the breakdown rows in the order of the
   registry *)
SiteRiskFrom(unsorted) ==
    LET hazard_scores == [i \in 1 .. Len(unsorted) |-> unsorted[i].final_score]
        breakdown == SortBreakdown(unsorted)
        top_5_hazards ==
            SubSeq(breakdown, 1, IF Len(breakdown) < TopN THEN Len(breakdown) ELSE TopN)
        site_score == CompositeScore(hazard_scores)
        graded == GradeOf(site_score)
    IN  [raised |-> "",
         score |-> site_score,
         grade |-> graded.grade,
         breakdown |-> breakdown,
         top_5_hazards |-> top_5_hazards,
         top_concern |-> IF breakdown # << >> THEN breakdown[1].label ELSE "None",
         top_concern_stats |->
             IF breakdown # << >>
             THEN <<breakdown[1].frequency_count, breakdown[1].fatal_count,
                    breakdown[1].avg_dafw>>
             ELSE << >>,
         recommendation |-> graded.recommendation,
         grade_explanation |-> graded.grade_explanation]

(* lines 201-298, over a database that exists; hazard_registry is the
   sequence of its items, rows the incidents table *)
compute_site_risk(hazard_registry, rows) ==
    SiteRiskFrom([i \in 1 .. Len(hazard_registry) |-> HazardRow(hazard_registry[i], rows)])

---------------------------------------------------------------------------
(* State before any call *)
NoArgs == <<0, 0, RInt(0), 0>>
NoGrade == [grade |-> "", grade_explanation |-> "", recommendation |-> ""]
NoSite == [raised |-> ""]
NoCall == [hazard_label |-> "", category |-> "", k |-> 0]
NoRetrieval == [raised |-> ""]
NoExpansion == [expansion |-> << >>]
NoRow == [row |-> << >>, in_fts |-> FALSE, in_like |-> FALSE]
NoResult == [outcome |-> ""]

ScorerIdle ==
    /\ hs_called = FALSE /\ hs_args = NoArgs /\ hs_out = ZeroScore
    /\ gr_called = FALSE /\ gr_score = 0 /\ gr_out = NoGrade
    /\ sr_called = FALSE /\ registry = << >> /\ sr_out = NoSite

RetrieverIdle ==
    /\ rn_called = FALSE /\ rn_args = NoCall /\ rn_out = NoRetrieval
    /\ qe_called = FALSE /\ qe_category = "" /\ qe_out = NoExpansion
    /\ fo_called = FALSE /\ fo_row = NoRow /\ fo_out = NoResult

(* No cache file yet, no statistics call, no call in flight, no composite,
   and the session state as lines 146-155 of app.py set it *)
NoCache == [state |-> "absent", chunks |-> << >>]
NoStatsCall == [function |-> "", category |-> ""]
NoStats == [raised |-> ""]
NoSession == [video_bytes |-> FALSE, play_from |-> 0, last_jump |-> << >>]

ServiceIdle ==
    /\ db_exists = TRUE /\ cache = NoCache
    /\ gs_called = FALSE /\ gs_args = NoStatsCall /\ gs_out = NoStats
    /\ procs = << >>
    /\ cs_called = FALSE /\ cs_scores = << >> /\ cs_out = 0
    /\ session = NoSession /\ uploader = FALSE /\ player = << >> /\ seek = << >>

(* Inputs of compute_hazard_score: frequencies around zero and around the
   frequency cap, counts below and above the small frequencies, averages
   around the days-away cap *)
FreqValues == (-1 .. MaxCount) \cup {FreqCap - 1, FreqCap, FreqCap + 1}
CountValues == -1 .. (MaxCount + 1)
AvgValues ==
    {Rat(n, d) : n \in {-DafwCap, 0, 1, DafwCap \div 2, DafwCap, DafwCap + 1},
                 d \in 1 .. MaxDen}
ScoreInputs == FreqValues \X CountValues \X AvgValues \X CountValues

(* The tuples that differ from a in at most one argument *)
OneArgChanged(a) ==
    {b \in ScoreInputs : Cardinality({i \in 1 .. 4 : a[i] # b[i]}) <= 1}

InitScore ==
    /\ corpus = << >>
    /\ hs_called = FALSE
    /\ hs_args \in ScoreInputs
    /\ hs_out = ZeroScore
    /\ gr_called = FALSE /\ gr_score = 0 /\ gr_out = NoGrade
    /\ sr_called = FALSE /\ registry = << >> /\ sr_out = NoSite
    /\ RetrieverIdle
    /\ ServiceIdle

(* A call of compute_hazard_score: the first with the arguments drawn, a
   later one with one argument changed *)
ScoreCall ==
    /\ \E a \in (IF hs_called THEN OneArgChanged(hs_args) ELSE {hs_args}) :
          /\ hs_args' = a
          /\ hs_out' = compute_hazard_score(a[1], a[2], a[3], a[4])
    /\ hs_called' = TRUE
    /\ UNCHANGED <<corpus, gr_called, gr_score, gr_out, sr_called, registry, sr_out,
                 retriever_vars, service_vars>>

NextScore == ScoreCall

SpecScore == InitScore /\ [][NextScore]_vars

---------------------------------------------------------------------------
(* The grading of a site score: every score of [0, 100], in tenths *)
GradeScores == 0 .. (10 * ScoreCap)

InitGrade ==
    /\ corpus = << >>
    /\ hs_called = FALSE /\ hs_args = NoArgs /\ hs_out = ZeroScore
    /\ gr_called = FALSE /\ gr_score = 0 /\ gr_out = NoGrade
    /\ sr_called = FALSE /\ registry = << >> /\ sr_out = NoSite
    /\ RetrieverIdle
    /\ ServiceIdle

GradeCall ==
    /\ \E s \in GradeScores :
          /\ gr_score' = s
          /\ gr_out' = GradeOf(s)
    /\ gr_called' = TRUE
    /\ UNCHANGED <<corpus, hs_called, hs_args, hs_out, sr_called, registry, sr_out,
                 retriever_vars, service_vars>>

NextGrade == GradeCall

SpecGrade == InitGrade /\ [][NextGrade]_vars

---------------------------------------------------------------------------
(* The corpus and the registries of the site model *)
MaxCorpus == 2
MaxRegistry == 6

SeqsUpTo(S, n) == UNION {[1 .. k -> S] : k \in 0 .. n}

IncidentTexts ==
    {[event_title_pred |-> "Fall to lower level", source_title_pred |-> "Ladder",
      nar_what_happened |-> "Employee fell from a ladder"],
     [event_title_pred |-> "Struck by object", source_title_pred |-> "Forklift",
      nar_what_happened |-> "A pallet struck the employee"]}

(* incident_outcome and dafw_num_away: fatal, 12 days away, 100 days away *)
IncidentOutcomes == {<<1, 0>>, <<2, 12>>, <<2, 100>>}

IncidentKinds ==
    {[event_title_pred |-> t.event_title_pred,
      source_title_pred |-> t.source_title_pred,
      nar_what_happened |-> t.nar_what_happened,
      incident_outcome |-> o[1],
      dafw_num_away |-> o[2]] : t \in IncidentTexts, o \in IncidentOutcomes}

Corpora == SeqsUpTo(IncidentKinds, MaxCorpus)

HazardDescriptors ==
    {[label |-> "Floor Hole", category |-> "Fall Hazard"],
     [label |-> "Unsecured Load", category |-> "Struck By"]}

HazardIds ==
    <<"hazard_001", "hazard_002", "hazard_003", "hazard_004", "hazard_005",
      "hazard_006", "hazard_007", "hazard_008">>

(* the items of a registry, in insertion order; its keys are distinct *)
Registries ==
    {[i \in 1 .. Len(ds) |->
         [hazard_id |-> HazardIds[i], label |-> ds[i].label, category |-> ds[i].category]] :
     ds \in SeqsUpTo(HazardDescriptors, MaxRegistry)}

Init ==
    /\ corpus \in Corpora
    /\ hs_called = FALSE /\ hs_args = NoArgs /\ hs_out = ZeroScore
    /\ gr_called = FALSE /\ gr_score = 0 /\ gr_out = NoGrade
    /\ sr_called = FALSE /\ registry = << >> /\ sr_out = NoSite
    /\ RetrieverIdle
    /\ ServiceIdle

(* The call of compute_site_risk *)
Assess ==
    /\ ~sr_called
    /\ \E r \in Registries :
          /\ registry' = r
          /\ sr_out' = compute_site_risk(r, corpus)
    /\ sr_called' = TRUE
    /\ UNCHANGED <<corpus, hs_called, hs_args, hs_out, gr_called, gr_score, gr_out,
                 retriever_vars, service_vars>>

Next == Assess

Spec == Init /\ [][Next]_vars

---------------------------------------------------------------------------
(* rag_retriever.py: values of the incidents table as the retriever sees   *)
(* them.  A nullable integer is << >> (NULL, None) or <<n>>; a NULL text   *)
(* column is "" (indexer.py stores every blank text as NULL, lines         *)
(* 174-198, so no stored text is empty); Python's None for the optional    *)
(* category argument is the value None below.                              *)
Null == << >>
Some(n) == <<n>>
NullText == ""
None == "<None>"

format_outcome_NoCount(incident_outcome, dafw_num_away, djtr_num_tr) ==
    IF incident_outcome = Some(1) THEN "FATAL"
    ELSE IF incident_outcome = Some(2) THEN "Days away from work"
    ELSE IF incident_outcome = Some(3) THEN "Job transfer/restriction"
    ELSE IF incident_outcome = Some(4) THEN "Other recordable case"
    ELSE "Unknown"

(* rag_retriever.format_outcome, lines 24-41 *)
format_outcome(incident_outcome, dafw_num_away, djtr_num_tr) ==
    IF incident_outcome = Some(1) THEN "FATAL"
    ELSE IF incident_outcome = Some(2) THEN
        IF dafw_num_away > 0 THEN ToString(dafw_num_away) \o " days away from work"
        ELSE "Days away from work"
    ELSE IF incident_outcome = Some(3) THEN
        IF djtr_num_tr > 0 THEN ToString(djtr_num_tr) \o " days job transfer/restriction"
        ELSE "Job transfer/restriction"
    ELSE IF incident_outcome = Some(4) THEN "Other recordable case"
    ELSE "Unknown"

(* row['dafw_num_away'] or 0, lines 220-221 *)
OrZero(value) == IF value = Null \/ value = Some(0) THEN 0 ELSE value[1]

(* row['nar_what_happened'] or '', lines 240-249 *)
OrEmpty(text) == IF text = NullText THEN "" ELSE text

(* Scores of the relevance heuristic, in hundredths: lines 225-237 *)
BaseRelevance == 50
FatalBonus == 30
SevereBonus == 10
DaysAwayBonus == 5
SevereDays == 30
FtsBonus == 10
LikeBonus == 5
RelevanceCap == 100

Min(a, b) == IF a <= b THEN a ELSE b

relevance_score_Unclipped(incident_outcome, dafw_num_away, in_fts, in_like) ==
    BaseRelevance
    + (IF incident_outcome = Some(1) THEN FatalBonus ELSE 0)
    + (IF dafw_num_away > SevereDays THEN SevereBonus
       ELSE IF dafw_num_away > 0 THEN DaysAwayBonus ELSE 0)
    + (IF in_fts THEN FtsBonus ELSE 0)
    + (IF in_like THEN LikeBonus ELSE 0)

relevance_score_FatalAsSevere(incident_outcome, dafw_num_away, in_fts, in_like) ==
    Min(RelevanceCap,
        BaseRelevance
        + (IF incident_outcome = Some(1) THEN SevereBonus ELSE 0)
        + (IF dafw_num_away > SevereDays THEN SevereBonus
           ELSE IF dafw_num_away > 0 THEN DaysAwayBonus ELSE 0)
        + (IF in_fts THEN FtsBonus ELSE 0)
        + (IF in_like THEN LikeBonus ELSE 0))

(* lines 225-237 *)
relevance_score(incident_outcome, dafw_num_away, in_fts, in_like) ==
    Min(RelevanceCap,
        relevance_score_Unclipped(incident_outcome, dafw_num_away, in_fts, in_like))

(* The result dict built from a fetched row, lines 218-254.  in_fts and
   in_like tell whether the row's id is in fts_rowids and in like_rowids. *)
ResultOf(row, in_fts, in_like) ==
    LET incident_outcome == row.incident_outcome
        dafw_num_away == OrZero(row.dafw_num_away)
        djtr_num_tr == OrZero(row.djtr_num_tr)
    IN  [what_happened |-> OrEmpty(row.nar_what_happened),
         injury_description |-> OrEmpty(row.nar_injury_illness),
         object_involved |-> OrEmpty(row.nar_object_substance),
         location |-> OrEmpty(row.incident_location),
         outcome |-> format_outcome(incident_outcome, dafw_num_away, djtr_num_tr),
         dafw_days |-> dafw_num_away,
         event_type |-> OrEmpty(row.event_title_pred),
         source |-> OrEmpty(row.source_title_pred),
         nature_of_injury |-> OrEmpty(row.nature_title_pred),
         is_fatal |-> (incident_outcome = Some(1)),
         relevance_score |->
             relevance_score(incident_outcome, dafw_num_away, in_fts, in_like)]

---------------------------------------------------------------------------
(* Splitting of strings *)
Digits == "0123456789"

CharIn(c, chars) == \E i \in 1 .. Len(chars) : SubSeq(chars, i, i) = c

(* The maximal runs of str whose characters satisfy: in chars (keep = TRUE),
   or not in chars (keep = FALSE).  cur is the run being read. *)
RECURSIVE Runs(_, _, _, _)
Runs(str, chars, keep, cur) ==
    IF Len(str) = 0 THEN (IF cur = "" THEN << >> ELSE <<cur>>)
    ELSE LET c == SubSeq(str, 1, 1)
             rest == SubSeq(str, 2, Len(str))
         IN  IF CharIn(c, chars) = keep THEN Runs(rest, chars, keep, cur \o c)
             ELSE (IF cur = "" THEN << >> ELSE <<cur>>) \o Runs(rest, chars, keep, "")

(* str.strip().split(): the runs of non-blank characters, line 100 *)
Split(str) == Runs(str, " ", FALSE, "")

(* " OR ".join(terms), line 103 *)
RECURSIVE JoinOr(_)
JoinOr(terms) ==
    IF Len(terms) = 0 THEN ""
    ELSE IF Len(terms) = 1 THEN terms[1]
    ELSE terms[1] \o " OR " \o JoinOr(Tail(terms))

(* rag_retriever.build_fts_query, lines 94-103 *)
build_fts_query(hazard_label) ==
    LET terms == Split(Lower(hazard_label))
        query_terms == [i \in 1 .. Len(terms) |-> terms[i] \o "*"]
    IN  IF Len(query_terms) > 0 THEN JoinOr(query_terms) ELSE hazard_label

---------------------------------------------------------------------------
(* The FTS5 index incidents_fts of indexer.create_database, lines 76-91,   *)
(* and its MATCH operator, for queries written with letters, digits,       *)
(* blanks, hyphens and the characters build_fts_query adds.                *)
NarrativeColumns ==
    <<"nar_what_happened", "nar_before_incident", "incident_location",
      "nar_injury_illness", "nar_object_substance", "incident_description">>

FtsColumns ==
    NarrativeColumns \o <<"event_title_pred", "source_title_pred", "nature_title_pred">>

ClassificationColumns == <<"event_title_pred", "source_title_pred">>

AlphaNumerics == LowerLetters \o UpperLetters \o Digits

(* unicode61, the default tokenizer: runs of letters and digits, case folded *)
Tokenize(text) ==
    LET runs == Runs(text, AlphaNumerics, TRUE, "")
    IN  {Lower(runs[i]) : i \in 1 .. Len(runs)}

IsPrefix(p, str) == Len(p) <= Len(str) /\ SubSeq(str, 1, Len(p)) = p

(* A word of a query that is a bareword followed by the prefix star *)
IsPrefixTerm(word) ==
    /\ Len(word) >= 2
    /\ SubSeq(word, Len(word), Len(word)) = "*"
    /\ \A i \in 1 .. (Len(word) - 1) : CharIn(SubSeq(word, i, i), AlphaNumerics)

(* The parse of a query: prefix terms separated by OR.  Any other query of
   the alphabet above is answered with sqlite3.OperationalError. *)
Fts5Malformed(fts_query) ==
    LET words == Split(fts_query)
    IN  \/ Len(words) = 0
        \/ Len(words) % 2 = 0
        \/ \E i \in 1 .. Len(words) :
              IF i % 2 = 1 THEN ~IsPrefixTerm(words[i]) ELSE words[i] # "OR"

(* The prefixes a well-formed query asks for *)
Fts5Prefixes(fts_query) ==
    LET words == Split(fts_query)
    IN  {Lower(SubSeq(words[i], 1, Len(words[i]) - 1)) :
            i \in {j \in 1 .. Len(words) : j % 2 = 1}}

(* tokens: the tokens of the indexed columns of a row *)
Fts5Match(tokens, fts_query) ==
    \E p \in Fts5Prefixes(fts_query) : \E t \in tokens : IsPrefix(p, t)

(* value LIKE '%pat%' with a column that may be NULL *)
SqlLike(value, pat) == value # NullText /\ Contains(Lower(value), Lower(pat))

---------------------------------------------------------------------------
(* rag_retriever.get_category_expansion, lines 44-91: a list of LIKE       *)
(* predicates, OR-ed by the caller (line 181)                              *)
get_category_expansion(category) ==
    IF category = None THEN << >>
    ELSE
    LET category_lower == Lower(category)
    IN  IF Contains(category_lower, "fall") THEN
            <<Like("event_title_pred", "fall"),
              Like("source_title_pred", "ladder"),
              Like("source_title_pred", "scaffold"),
              Like("source_title_pred", "roof")>>
        ELSE IF Contains(category_lower, "electric") THEN
            <<Like("event_title_pred", "contact with electric"),
              Like("event_title_pred", "contact with wiring"),
              Like("source_title_pred", "electric"),
              Like("source_title_pred", "wiring"),
              Like("source_title_pred", "power line"),
              Like("nar_what_happened", "electrocuted"),
              Like("nar_what_happened", "electric shock")>>
        ELSE IF Contains(category_lower, "struck") \/ Contains(category_lower, "hit") THEN
            <<Like("event_title_pred", "struck"), Like("event_title_pred", "hit")>>
        ELSE IF Contains(category_lower, "caught") \/ Contains(category_lower, "compress") THEN
            <<Like("event_title_pred", "caught"), Like("event_title_pred", "compress")>>
        ELSE IF Contains(category_lower, "chemical") THEN
            <<Like("event_title_pred", "expos"), Like("source_title_pred", "chemical")>>
        ELSE IF Contains(category_lower, "slip") \/ Contains(category_lower, "trip") THEN
            <<Like("event_title_pred", "slip"),
              Like("event_title_pred", "trip"),
              Like("event_title_pred", "same level")>>
        ELSE << >>

---------------------------------------------------------------------------
(* The three candidate queries of retrieve_narratives over the rows of     *)
(* incidents; the id of a row is its position in rows.                     *)

(* incidents_fts MATCH ?, lines 136-142 *)
FtsHit(row, fts_query) ==
    Fts5Match(UNION {Tokenize(row[FtsColumns[i]]) : i \in 1 .. Len(FtsColumns)}, fts_query)

(* the LIKE fallback, lines 150-159 *)
FallbackHit(row, hazard_label) ==
    \E i \in 1 .. Len(NarrativeColumns) : SqlLike(row[NarrativeColumns[i]], hazard_label)

(* event_title_pred LIKE ? OR source_title_pred LIKE ?, lines 167-171 *)
LikeHit(row, hazard_label) ==
    \E i \in 1 .. Len(ClassificationColumns) :
        SqlLike(row[ClassificationColumns[i]], hazard_label)

(* WHERE {expansion_query}, lines 181-186 *)
ExpansionHit(row, expansions) ==
    \E i \in 1 .. Len(expansions) : SqlLike(row[expansions[i].field], expansions[i].pat)

(* LIMIT n: SQLite returns the first n rows of the order it scans or ranks
   in, which the query does not fix among the rows that match (the rank of
   the FTS5 query is its bm25 score).  Any n of them may be returned. *)
Limit_Unlimited(ids, n) == {ids}

Limit(ids, n) ==
    IF n < 0 THEN {ids}
    ELSE {S \in SUBSET ids : Cardinality(S) = Min(n, Cardinality(ids))}

(* ORDER BY CASE WHEN incident_outcome = 1 THEN 0 ELSE 1 END, dafw_num_away
   DESC, lines 211-213: a NULL days-away sorts after every number *)
FatalRank(row) == IF row.incident_outcome = Some(1) THEN 0 ELSE 1

DafwBefore(a, b) ==
    /\ a.dafw_num_away # Null
    /\ (b.dafw_num_away = Null \/ a.dafw_num_away[1] > b.dafw_num_away[1])

StrictlyBefore_DaysFirst(a, b) ==
    \/ DafwBefore(a, b)
    \/ ~DafwBefore(b, a) /\ FatalRank(a) < FatalRank(b)

StrictlyBefore(a, b) ==
    \/ FatalRank(a) < FatalRank(b)
    \/ FatalRank(a) = FatalRank(b) /\ DafwBefore(a, b)

(* WHERE id IN (...) ORDER BY ... LIMIT n, lines 200-215: the sequences of
   ids the cursor may yield; rows that tie come in any order, and a negative
   LIMIT is no limit *)
RECURSIVE FetchOrdered(_, _, _)
FetchOrdered(rows, ids, n) ==
    IF n = 0 \/ ids = {} THEN {<< >>}
    ELSE UNION {{<<m>> \o rest : rest \in FetchOrdered(rows, ids \ {m}, n - 1)} :
                m \in {i \in ids : \A j \in ids : ~StrictlyBefore(rows[j], rows[i])}}

FetchRows_NoLimit(rows, ids, k) == FetchOrdered(rows, ids, -1)

(* the final query with LIMIT k, lines 199-215 *)
FetchRows(rows, ids, k) == FetchOrdered(rows, ids, k)

---------------------------------------------------------------------------
(* The rows and the arguments of the retrieval model *)
(* A row of incidents: the columns the retriever reads.  dafw_num_away and
   djtr_num_tr are never NULL (indexer.safe_int_zero), incident_outcome may
   be (indexer.safe_int). *)
IncidentRow(incident_outcome, dafw_num_away, djtr_num_tr, what, location, event, source, nature) ==
    [incident_outcome |-> incident_outcome,
     dafw_num_away |-> Some(dafw_num_away),
     djtr_num_tr |-> Some(djtr_num_tr),
     nar_what_happened |-> what,
     nar_before_incident |-> NullText,
     incident_location |-> location,
     nar_injury_illness |-> NullText,
     nar_object_substance |-> NullText,
     incident_description |-> NullText,
     event_title_pred |-> event,
     source_title_pred |-> source,
     nature_title_pred |-> nature]

RetrievalKinds ==
    <<IncidentRow(Some(1), 0, 0, "Worker fell through a floor hole", NullText,
                  "Fall to lower level", "Floor opening", NullText),
      IncidentRow(Some(1), 45, 0, "Employee slid off the roof edge", "Roof",
                  "Fall to lower level", "Roof", NullText),
      IncidentRow(Some(2), 12, 0, "Stepped into an open floor hole", NullText,
                  "Fall to lower level", "Floor hole cover", NullText),
      IncidentRow(Some(2), 100, 0, "Lanyard snapped under load", NullText,
                  "Struck by falling object", "Fall-arrest lanyard", NullText),
      IncidentRow(Null, 0, 5, "Fall-arrest anchor pulled out", NullText,
                  NullText, NullText, "Fall-arrest injuries")>>

HazardLabels == {"floor hole", "Roof", "fall-arrest", ""}
CategoryArgs == {None, "", "Fall Hazard", "Confined Space"}

(* The answers of the row predicates for the rows and arguments of the
   model, computed once *)
KnownRows == {RetrievalKinds[i] : i \in 1 .. Len(RetrievalKinds)}

LexicalTable ==
    [hazard_label \in HazardLabels |->
        LET fts_query == build_fts_query(hazard_label)
            failed == Fts5Malformed(fts_query)
        IN  [failed |-> failed,
             hit |-> [row \in KnownRows |->
                         IF failed THEN FallbackHit(row, hazard_label)
                         ELSE FtsHit(row, fts_query)]]]

LikeTable ==
    [hazard_label \in HazardLabels |-> [row \in KnownRows |-> LikeHit(row, hazard_label)]]

ExpansionTable ==
    [category \in CategoryArgs |->
        [row \in KnownRows |-> ExpansionHit(row, get_category_expansion(category))]]

(* The candidate ids of the three passes, before their LIMIT *)
Ids(rows) == 1 .. Len(rows)

(* Whether the MATCH query of the label raises sqlite3.OperationalError *)
MatchFails(hazard_label) ==
    IF hazard_label \in HazardLabels THEN LexicalTable[hazard_label].failed
    ELSE Fts5Malformed(build_fts_query(hazard_label))

(* A row of the MATCH query, or of the LIKE fallback when the query fails *)
LexicalHit(row, hazard_label) ==
    IF hazard_label \in HazardLabels /\ row \in KnownRows
    THEN LexicalTable[hazard_label].hit[row]
    ELSE IF MatchFails(hazard_label) THEN FallbackHit(row, hazard_label)
    ELSE FtsHit(row, build_fts_query(hazard_label))

ClassificationHit(row, hazard_label) ==
    IF hazard_label \in HazardLabels /\ row \in KnownRows
    THEN LikeTable[hazard_label][row]
    ELSE LikeHit(row, hazard_label)

CategoryHit(row, category) ==
    IF category \in CategoryArgs /\ row \in KnownRows
    THEN ExpansionTable[category][row]
    ELSE ExpansionHit(row, get_category_expansion(category))

(* lines 131-161: the MATCH query, or the handler of the
   sqlite3.OperationalError it raises *)
LexicalCandidates_NoHandler(rows, hazard_label) ==
    IF MatchFails(hazard_label)
    THEN [raised |-> "sqlite3.OperationalError", failed |-> TRUE, ids |-> {}]
    ELSE [raised |-> "", failed |-> FALSE,
          ids |-> {i \in Ids(rows) : LexicalHit(rows[i], hazard_label)}]

LexicalCandidates(rows, hazard_label) ==
    [raised |-> "", failed |-> MatchFails(hazard_label),
     ids |-> {i \in Ids(rows) : LexicalHit(rows[i], hazard_label)}]

(* lines 164-174 *)
ClassificationCandidates(rows, hazard_label) ==
    {i \in Ids(rows) : ClassificationHit(rows[i], hazard_label)}

CategoryCandidates_AlwaysFall(rows, category) ==
    {i \in Ids(rows) : CategoryHit(rows[i], "Fall Hazard")}

(* lines 177-188: "if category", "if expansions" *)
CategoryCandidates(rows, category) ==
    IF category = None \/ category = "" THEN {}
    ELSE IF get_category_expansion(category) = << >> THEN {}
    ELSE {i \in Ids(rows) : CategoryHit(rows[i], category)}

(* What a call leaves behind when an exception escapes it *)
Raised(e) ==
    [raised |-> e, fts_failed |-> TRUE, fts_rowids |-> {}, like_rowids |-> {},
     category_rowids |-> {}, all_rowids |-> {}, fetched |-> << >>, results |-> << >>]

CandidateLimit(k) == k * 3

(* rag_retriever.retrieve_narratives, lines 106-257, with the database
   present: the outcomes the call may have.  Each records the id sets of
   the passes and the ids of the rows fetched next to the list returned. *)
retrieve_narratives(rows, hazard_label, category, k) ==
    LET lexical == LexicalCandidates(rows, hazard_label)
    IN  IF lexical.raised # "" THEN {Raised(lexical.raised)}
        ELSE
        {[raised |-> "",
          fts_failed |-> lexical.failed,
          fts_rowids |-> fts_rowids,
          like_rowids |-> like_rowids,
          category_rowids |-> category_rowids,
          all_rowids |-> fts_rowids \cup like_rowids \cup category_rowids,
          fetched |-> fetched,
          results |-> [n \in 1 .. Len(fetched) |->
                          ResultOf(rows[fetched[n]], fetched[n] \in fts_rowids,
                                   fetched[n] \in like_rowids)]] :
            <<fts_rowids, like_rowids, category_rowids, fetched>> \in
              UNION {{<<f, l, c, o>> :
                         o \in FetchRows(rows, f \cup l \cup c, k)} :
                     <<f, l, c>> \in
                        Limit(lexical.ids, CandidateLimit(k))
                        \X Limit(ClassificationCandidates(rows, hazard_label), CandidateLimit(k))
                        \X Limit(CategoryCandidates(rows, category), CandidateLimit(k))}}

---------------------------------------------------------------------------
(* The corpus and the calls of the retrieval model *)
MaxIncidents == 4
MaxK == 2

(* The tables of at most MaxIncidents rows.  No query of the retriever
   depends on the ids themselves, so the rows are listed in one order of
   their kinds. *)
RetrievalCorpora ==
    {[i \in 1 .. Len(ks) |-> RetrievalKinds[ks[i]]] :
        ks \in {s \in SeqsUpTo(1 .. Len(RetrievalKinds), MaxIncidents) :
                   \A i \in 1 .. (Len(s) - 1) : s[i] <= s[i + 1]}}

InitRetrieve ==
    /\ corpus \in RetrievalCorpora
    /\ ScorerIdle
    /\ RetrieverIdle
    /\ ServiceIdle

(* A call of retrieve_narratives *)
Retrieve ==
    /\ ~rn_called
    /\ \E hazard_label \in HazardLabels, category \in CategoryArgs, k \in 1 .. MaxK :
          /\ rn_args' = [hazard_label |-> hazard_label, category |-> category, k |-> k]
          /\ rn_out' \in retrieve_narratives(corpus, hazard_label, category, k)
    /\ rn_called' = TRUE
    /\ UNCHANGED <<corpus, scorer_vars, service_vars, qe_called, qe_category, qe_out,
                   fo_called, fo_row, fo_out>>

NextRetrieve == Retrieve

SpecRetrieve == InitRetrieve /\ [][NextRetrieve]_vars

---------------------------------------------------------------------------
(* The result dict of one fetched row, for every outcome code *)
MaxCode == 5
MaxDays == 2

OutcomeCodes == {Null} \cup {Some(n) : n \in -1 .. MaxCode}
DayCounts == (-1 .. MaxDays) \cup {SevereDays, SevereDays + 1}

InitOutcome ==
    /\ corpus = << >>
    /\ ScorerIdle
    /\ RetrieverIdle
    /\ ServiceIdle

(* One turn of the loop over the fetched rows, lines 218-254 *)
BuildResult ==
    /\ ~fo_called
    /\ \E code \in OutcomeCodes, dafw \in DayCounts, djtr \in 0 .. MaxDays,
          in_fts \in BOOLEAN, in_like \in BOOLEAN :
          LET row == IncidentRow(code, dafw, djtr, "Worker fell", NullText,
                                 "Fall to lower level", NullText, NullText)
          IN  /\ fo_row' = [row |-> row, in_fts |-> in_fts, in_like |-> in_like]
              /\ fo_out' = ResultOf(row, in_fts, in_like)
    /\ fo_called' = TRUE
    /\ UNCHANGED <<corpus, scorer_vars, service_vars, rn_called, rn_args, rn_out,
                   qe_called, qe_category, qe_out>>

NextOutcome == BuildResult

SpecOutcome == InitOutcome /\ [][NextOutcome]_vars

---------------------------------------------------------------------------
(* The three mappings of a category, applied to one category string *)
(* osha_stats.get_category_filter, lines 30-57 *)
osha_stats_get_category_filter(category) ==
    LET category_lower == lower(category)
    IN  IF Contains(category_lower, "fall") THEN Like("event_title_pred", "fall")
        ELSE IF Contains(category_lower, "electric") THEN
            Or(<<Like("event_title_pred", "contact with electric"),
                 Like("event_title_pred", "contact with wiring"),
                 Like("source_title_pred", "electric"),
                 Like("source_title_pred", "wiring"),
                 Like("source_title_pred", "power line"),
                 Like("nar_what_happened", "electrocuted"),
                 Like("nar_what_happened", "electric shock")>>)
        ELSE IF Contains(category_lower, "struck") THEN Like("event_title_pred", "struck")
        ELSE IF Contains(category_lower, "caught") \/ Contains(category_lower, "between") THEN
            Or(<<Like("event_title_pred", "caught"), Like("event_title_pred", "compress")>>)
        ELSE IF Contains(category_lower, "slip") \/ Contains(category_lower, "trip") THEN
            Or(<<Like("event_title_pred", "fall on same level"),
                 Like("event_title_pred", "slip")>>)
        ELSE IF Contains(category_lower, "fire") \/ Contains(category_lower, "explosion") THEN
            Or(<<Like("event_title_pred", "fire"), Like("event_title_pred", "explosion")>>)
        ELSE InterpolatedLike("event_title_pred", category)

MaxWords == 2

UpperChar(c) ==
    IF \E i \in 1 .. Len(LowerLetters) : SubSeq(LowerLetters, i, i) = c
    THEN LET i == CHOOSE j \in 1 .. Len(LowerLetters) : SubSeq(LowerLetters, j, j) = c
         IN  SubSeq(UpperLetters, i, i)
    ELSE c

RECURSIVE Upper(_)
Upper(str) ==
    IF Len(str) = 0 THEN ""
    ELSE UpperChar(SubSeq(str, 1, 1)) \o Upper(SubSeq(str, 2, Len(str)))

Capitalize(str) ==
    IF Len(str) = 0 THEN "" ELSE UpperChar(SubSeq(str, 1, 1)) \o SubSeq(str, 2, Len(str))

(* The words categories are written with: the keywords the two expanders
   test, and words neither of them knows *)
CategoryWords ==
    {"fall", "electrical", "struck", "caught", "compression", "chemical", "slip",
     "trip", "fire", "explosion", "hit", "noise", "hazard"}

RECURSIVE JoinWords(_)
JoinWords(words) ==
    IF Len(words) = 0 THEN ""
    ELSE IF Len(words) = 1 THEN words[1]
    ELSE words[1] \o " " \o JoinWords(Tail(words))

(* Categories of one to MaxWords distinct words, in lower case, in upper
   case and capitalised *)
CategoryStrings ==
    UNION {{JoinWords(ws), Upper(JoinWords(ws)), Capitalize(JoinWords(ws))} :
              ws \in {s \in SeqsUpTo(CategoryWords, MaxWords) :
                         /\ Len(s) >= 1
                         /\ \A i, j \in 1 .. Len(s) : i # j => s[i] # s[j]}}

InitExpand ==
    /\ corpus = << >>
    /\ ScorerIdle
    /\ rn_called = FALSE /\ rn_args = NoCall /\ rn_out = NoRetrieval
    /\ qe_called = FALSE /\ qe_category \in CategoryStrings /\ qe_out = NoExpansion
    /\ fo_called = FALSE /\ fo_row = NoRow /\ fo_out = NoResult
    /\ ServiceIdle

(* get_category_expansion(category) of the retriever's category pass (line
   179), get_category_filter(category) of the scorer (line 219 of
   risk_scorer.py) and get_category_filter(category) of the statistics
   (line 191 of osha_stats.py) *)
Expand ==
    /\ ~qe_called
    /\ qe_out' = [expansion |-> get_category_expansion(qe_category),
                  filter |-> get_category_filter(qe_category),
                  stats_filter |-> osha_stats_get_category_filter(qe_category)]
    /\ qe_called' = TRUE
    /\ UNCHANGED <<corpus, scorer_vars, service_vars, rn_called, rn_args, rn_out, qe_category,
                   fo_called, fo_row, fo_out>>

NextExpand == Expand

SpecExpand == InitExpand /\ [][NextExpand]_vars

---------------------------------------------------------------------------
(* Properties of compute_hazard_score, checked under SpecScore *)

ArgsLe(a, b) == a[1] <= b[1] /\ a[2] <= b[2] /\ RLe(a[3], b[3]) /\ a[4] <= b[4]

NonNegativeArgs(a) == a[1] >= 0 /\ a[2] >= 0 /\ a[3].n >= 0 /\ a[4] >= 0

ComponentSum(o) ==
    o.frequency_score + o.fatality_score + o.severity_score + o.severe_case_score

Clip(x, lo, hi) == IF x < lo THEN lo ELSE IF x > hi THEN hi ELSE x

(* x lies exactly halfway between two tenths.  Only there can the binary
   floating point value of the source round to the other tenth than the
   exact value does. *)
ExactHalf(x) == 2 * ((10 * x.n) % x.d) = x.d

(* none of the five values that a call rounds is such a tie *)
NoRoundingTie(a) ==
    a[1] # 0 =>
        LET fr == frequency_score(a[1])
            ft == fatality_score(a[2], a[1])
            sv == severity_score(a[3])
            sc == severe_case_score(a[4], a[1])
            raw == RMin(RAdd(RAdd(RAdd(fr, ft), sv), sc), RInt(ScoreCap))
        IN  ~ExactHalf(fr) /\ ~ExactHalf(ft) /\ ~ExactHalf(sv) /\ ~ExactHalf(sc)
            /\ ~ExactHalf(raw)

(* C1, as stated: between two calls that differ in exactly one of the four
   arguments, that argument larger in the second, final_score does not
   decrease.  Stated here for non-negative arguments that round at no tie
   only, so all the more for any arguments. *)
C1_MonotoneInAllFour ==
    [][(hs_called /\ hs_called' /\ ArgsLe(hs_args, hs_args')
          /\ NonNegativeArgs(hs_args)
          /\ NoRoundingTie(hs_args) /\ NoRoundingTie(hs_args'))
          => hs_out'.final_score >= hs_out.final_score]_vars

(* C1, amended: with frequency_count >= 0 held fixed, final_score does not
   decrease when one of fatal_count, avg_dafw, severe_count grows. *)
C1_MonotoneInCounts ==
    [][(hs_called /\ hs_called' /\ hs_args[1] = hs_args'[1] /\ hs_args[1] >= 0
          /\ ArgsLe(hs_args, hs_args'))
          => hs_out'.final_score >= hs_out.final_score]_vars

C1_Witness ==
    /\ hs_called
    /\ hs_args = <<2, 2, RInt(DafwCap \div 2), 1>>
    /\ hs_out.final_score = 551

(* C2: with non-negative arguments every returned component is within its
   cap: 25, 35, 25, 15.  Stated here for arguments that round at no tie
   only, so all the more for any non-negative arguments. *)
C2_ComponentsWithinCaps ==
    (hs_called /\ NonNegativeArgs(hs_args) /\ NoRoundingTie(hs_args)) =>
        /\ hs_out.frequency_score <= 10 * FreqPoints
        /\ hs_out.fatality_score <= 10 * FatalPoints
        /\ hs_out.severity_score <= 10 * SevPoints
        /\ hs_out.severe_case_score <= 10 * SeverePoints

(* C3: every call returns, and its final_score lies in [0, 100].  Stated
   here for arguments that round at no tie only, so all the more for any
   arguments. *)
C3_TotalAndInRange ==
    (hs_called /\ NoRoundingTie(hs_args)) =>
        /\ hs_out.raised = ""
        /\ 0 <= hs_out.final_score
        /\ hs_out.final_score <= 10 * ScoreCap

(* C4: with frequency_count = 0 the call returns final_score 0 and all four
   components 0, whatever the other arguments, and raises nothing. *)
C4_ZeroFrequency ==
    (hs_called /\ hs_args[1] = 0) => hs_out = ZeroScore

C4_Witness ==
    /\ hs_called
    /\ hs_args = <<0, 2, RInt(DafwCap), 2>>
    /\ hs_out.raised = ""
    /\ hs_out.final_score = 0

(* C5, as stated: with frequency_count > 0, final_score equals the sum of
   the four returned components clipped to [0, 100].  Stated here for
   non-negative arguments that round at no tie only, so all the more for
   any arguments. *)
C5_FinalIsClippedSum ==
    (hs_called /\ hs_args[1] > 0 /\ NonNegativeArgs(hs_args) /\ NoRoundingTie(hs_args)) =>
        hs_out.final_score = Clip(ComponentSum(hs_out), 0, 10 * ScoreCap)

(* C5, amended: with frequency_count > 0, final_score is within 0.2 of the
   sum of the four returned components capped at 100 (the components are
   rounded one by one, final_score is the rounded unrounded sum). *)
C5_FinalNearCappedSum ==
    (hs_called /\ hs_args[1] > 0) =>
        LET capped == IF ComponentSum(hs_out) > 10 * ScoreCap
                      THEN 10 * ScoreCap ELSE ComponentSum(hs_out)
        IN  /\ hs_out.final_score - capped <= 2
            /\ capped - hs_out.final_score <= 2

C5_Witness ==
    /\ hs_called
    /\ hs_args[1] > 0
    /\ NonNegativeArgs(hs_args)
    /\ NoRoundingTie(hs_args)
    /\ hs_out.final_score # ComponentSum(hs_out)
    /\ ComponentSum(hs_out) < 10 * ScoreCap

---------------------------------------------------------------------------
(* Properties of compute_site_risk, checked under Spec *)

Rows == sr_out.breakdown

RECURSIVE RowScoreSum(_)
RowScoreSum(rows) ==
    IF rows = << >> THEN 0 ELSE Head(rows).final_score + RowScoreSum(Tail(rows))

MaxRowScore(rows) ==
    CHOOSE m \in {rows[i].final_score : i \in 1 .. Len(rows)} :
        \A i \in 1 .. Len(rows) : rows[i].final_score <= m

(* 100 * (n - 1) times highest * 0.6 + mean(others) * 0.4, for scores in
   tenths: an integer *)
DominanceScaled(rows) ==
    LET h == MaxRowScore(rows)
    IN  6 * h * (Len(rows) - 1) + 4 * (RowScoreSum(rows) - h)

(* C6, as stated: with two or more hazards the composite score equals
   highest_score * 0.6 + mean(the other n - 1 scores) * 0.4. *)
C6_CompositeIsDominance ==
    (sr_called /\ Len(registry) >= 2) =>
        10 * (Len(Rows) - 1) * sr_out.score = DominanceScaled(Rows)

(* C6, amended: with two or more hazards the composite score is
   highest_score * 0.6 + mean(the other n - 1 scores) * 0.4 rounded to one
   decimal place: a multiple of 0.1 within 0.05 of the formula's value. *)
C6_CompositeIsRoundedDominance ==
    (sr_called /\ Len(registry) >= 2) =>
        /\ 2 * (10 * (Len(Rows) - 1) * sr_out.score - DominanceScaled(Rows))
              <= 10 * (Len(Rows) - 1)
        /\ 2 * (DominanceScaled(Rows) - 10 * (Len(Rows) - 1) * sr_out.score)
              <= 10 * (Len(Rows) - 1)

C6_Witness ==
    /\ sr_called
    /\ Len(registry) = 3
    /\ Rows[1].final_score = Rows[2].final_score
    /\ Rows[3].final_score < Rows[2].final_score
    /\ Rows[3].final_score > 0
    /\ sr_out.score < Rows[1].final_score

(* C7: on an empty registry the result has composite score 0, an empty
   breakdown, an empty top-5 and grade A, and nothing is raised. *)
C7_EmptyRegistry ==
    (sr_called /\ registry = << >>) =>
        /\ sr_out.raised = ""
        /\ sr_out.score = 0
        /\ sr_out.breakdown = << >>
        /\ sr_out.top_5_hazards = << >>
        /\ sr_out.grade = "A"

C7_Witness ==
    /\ sr_called
    /\ registry = << >>
    /\ Len(corpus) = 2
    /\ sr_out.score = 0
    /\ sr_out.grade = "A"

(* C8: on a registry of exactly one hazard the composite score is that
   hazard's final_score. *)
C8_SingleHazard ==
    (sr_called /\ Len(registry) = 1) =>
        /\ Len(Rows) = 1
        /\ Rows[1].hazard_id = registry[1].hazard_id
        /\ sr_out.score = Rows[1].final_score

C8_Witness ==
    /\ sr_called
    /\ Len(registry) = 1
    /\ Rows[1].final_score > 0
    /\ sr_out.score = Rows[1].final_score

(* C10: the breakdown holds exactly one row per registry entry, sorted by
   final_score descending; top_5_hazards is its first min(5, n) rows; the
   top concern is the label of a row of maximal final_score. *)
C10_BreakdownSortedTopFive ==
    sr_called =>
        /\ Len(Rows) = Len(registry)
        /\ \A i \in 1 .. Len(registry) :
              Cardinality({j \in 1 .. Len(Rows) :
                              /\ Rows[j].hazard_id = registry[i].hazard_id
                              /\ Rows[j].label = registry[i].label
                              /\ Rows[j].category = registry[i].category}) = 1
        /\ \A j \in 1 .. (Len(Rows) - 1) : Rows[j].final_score >= Rows[j + 1].final_score
        /\ sr_out.top_5_hazards =
              SubSeq(Rows, 1, IF Len(registry) < 5 THEN Len(registry) ELSE 5)
        /\ Len(registry) >= 1 =>
              \E j \in 1 .. Len(Rows) :
                  /\ Rows[j].label = sr_out.top_concern
                  /\ Rows[j].final_score = MaxRowScore(Rows)

C10_Witness ==
    /\ sr_called
    /\ Len(registry) = 6
    /\ Len(sr_out.top_5_hazards) = 5
    /\ Rows[1].final_score > Rows[6].final_score
    /\ Rows[1].hazard_id # registry[1].hazard_id
    /\ sr_out.top_concern = Rows[1].label

---------------------------------------------------------------------------
(* Properties of the grading, checked under SpecGrade *)

BandOf(score) ==
    IF score <= 200 THEN "A"
    ELSE IF score <= 400 THEN "B"
    ELSE IF score <= 600 THEN "C"
    ELSE IF score <= 800 THEN "D"
    ELSE "F"

ExplanationOf ==
    [b \in {"A", "B", "C", "D", "F"} |->
        CASE b = "A" -> "A: 0-20 risk range. Low risk site. Standard safety protocols sufficient."
          [] b = "B" -> "B: 21-40 risk range. Moderate risk. Enhanced safety measures recommended."
          [] b = "C" -> "C: 41-60 risk range. Elevated risk. Regular safety audits required."
          [] b = "D" -> "D: 61-80 risk range. High-risk site. Immediate corrective action recommended."
          [] b = "F" -> "F: 81-100 risk range. Critical risk. Site shutdown may be required until hazards are mitigated."]

RecommendationOf ==
    [b \in {"A", "B", "C", "D", "F"} |->
        CASE b = "A" -> "Low-risk site. Standard safety protocols sufficient."
          [] b = "B" -> "Moderate-risk site. Enhanced safety measures recommended."
          [] b = "C" -> "Elevated-risk site. Regular safety audits and training required."
          [] b = "D" -> "High-risk site. Daily safety briefings required. Immediate corrective action needed."
          [] b = "F" -> "Critical-risk site. Consider site shutdown until hazards are mitigated. Emergency safety protocols required."]

(* C9: for every composite score in [0, 100] the grade, its explanation and
   the recommendation are those of one band with closed upper bounds:
   <= 20 A, <= 40 B, <= 60 C, <= 80 D, above F; 20.0 is A, 20.1 is B,
   80.0 is D, 80.1 is F. *)
C9_GradeBands ==
    gr_called =>
        /\ gr_out.grade = BandOf(gr_score)
        /\ gr_out.grade_explanation = ExplanationOf[gr_out.grade]
        /\ gr_out.recommendation = RecommendationOf[gr_out.grade]
        /\ gr_score = 200 => gr_out.grade = "A"
        /\ gr_score = 201 => gr_out.grade = "B"
        /\ gr_score = 800 => gr_out.grade = "D"
        /\ gr_score = 801 => gr_out.grade = "F"

C9_Witness ==
    /\ gr_called
    /\ gr_score = 801
    /\ gr_out.grade = "F"
    /\ gr_out.recommendation = RecommendationOf["F"]

---------------------------------------------------------------------------
(* Properties of retrieve_narratives, checked under SpecRetrieve *)

Fetched == rn_out.fetched
Results == rn_out.results
Returned == {Fetched[n] : n \in 1 .. Len(Fetched)}
CandidateUnion == rn_out.fts_rowids \cup rn_out.like_rowids \cup rn_out.category_rowids
Retrieved == rn_called /\ rn_out.raised = ""

IsFatal(id) == corpus[id].incident_outcome = Some(1)
DaysAway(id) == corpus[id].dafw_num_away[1]

(* fatal before non-fatal, then more days away before fewer *)
MoreSevere(a, b) ==
    \/ IsFatal(a) /\ ~IsFatal(b)
    \/ IsFatal(a) = IsFatal(b) /\ DaysAway(a) > DaysAway(b)

(* C11: retrieve_narratives returns the first min(k, |union|) records of the
   candidate union ordered by fatality descending, then days away
   descending: every fatal record returned precedes every non-fatal one,
   records of equal fatality come in non-increasing days-away order, and no
   candidate left out is strictly more severe than a returned one.  The
   relevance score has no part in the order. *)
C11_SeverityOrder ==
    Retrieved =>
        /\ Len(Results) = Min(rn_args.k, Cardinality(CandidateUnion))
        /\ \A i, j \in 1 .. Len(Results) :
              i < j =>
                /\ Results[j].is_fatal => Results[i].is_fatal
                /\ Results[i].is_fatal = Results[j].is_fatal
                      => Results[i].dafw_days >= Results[j].dafw_days
                /\ ~MoreSevere(Fetched[j], Fetched[i])
        /\ \A out \in CandidateUnion \ Returned :
              \A n \in 1 .. Len(Fetched) : ~MoreSevere(out, Fetched[n])

(* A fatal record precedes a non-fatal one, a record with more days away
   precedes one with a higher relevance score, and a candidate is left out *)
C11_Witness ==
    /\ Retrieved
    /\ Len(Results) >= 2
    /\ CandidateUnion \ Returned # {}
    /\ \E i, j \in 1 .. Len(Results) :
          /\ i < j
          /\ ~Results[i].is_fatal /\ ~Results[j].is_fatal
          /\ Results[i].dafw_days > Results[j].dafw_days
          /\ Results[i].relevance_score < Results[j].relevance_score

(* C12: at most k results, no incident twice in the result even when more
   than one pass found it, and every record returned is in the union of the
   lexical, classification and category candidate sets. *)
C12_AtMostKDistinctFromUnion ==
    Retrieved =>
        /\ Len(Results) <= rn_args.k
        /\ Len(Results) = Len(Fetched)
        /\ \A i, j \in 1 .. Len(Fetched) : i # j => Fetched[i] # Fetched[j]
        /\ \A n \in 1 .. Len(Fetched) :
              \/ Fetched[n] \in rn_out.fts_rowids
              \/ Fetched[n] \in rn_out.like_rowids
              \/ Fetched[n] \in rn_out.category_rowids

(* k results out of a larger union, one of them found by all three passes *)
C12_Witness ==
    /\ Retrieved
    /\ Len(Results) = rn_args.k
    /\ Cardinality(CandidateUnion) > rn_args.k
    /\ \E n \in 1 .. Len(Fetched) :
          Fetched[n] \in rn_out.fts_rowids \cap rn_out.like_rowids \cap rn_out.category_rowids

(* The rows a pass of the call would match, by the text of its query *)
NoRowMatches ==
    \A id \in 1 .. Len(corpus) :
        /\ ~LexicalHit(corpus[id], rn_args.hazard_label)
        /\ ~ClassificationHit(corpus[id], rn_args.hazard_label)
        /\ ~CategoryHit(corpus[id], rn_args.category)

(* C13: with an empty corpus, or when no record matches any of the three
   passes, retrieve_narratives returns the empty list and raises nothing. *)
C13_NoMatchIsEmptyList ==
    rn_called /\ (corpus = << >> \/ NoRowMatches) =>
        rn_out.raised = "" /\ rn_out.results = << >>

(* a corpus with rows none of which matches, searched with a query the
   lexical engine accepts and with one it rejects *)
C13_Witness ==
    /\ rn_called /\ corpus # << >> /\ NoRowMatches
    /\ rn_out.results = << >>
    /\ rn_args.category = "Fall Hazard"

(* The label as a substring of any column the lexical index covers *)
SubstringInIndexedColumns(row, hazard_label) ==
    \E i \in 1 .. Len(FtsColumns) : SqlLike(row[FtsColumns[i]], hazard_label)

(* C14: when the lexical engine rejects the query built from the label, no
   error is propagated: the lexical pass is replaced by a substring match of
   the label over the same fields the lexical index searches, capped at 3*k
   ids, and the classification pass, the category pass, the union and the
   ordering go on as in the non-failing case. *)
C14_FallbackOverIndexedFields ==
    rn_called /\ MatchFails(rn_args.hazard_label) =>
        /\ rn_out.raised = ""
        /\ rn_out.fts_rowids \in
              Limit({id \in 1 .. Len(corpus) :
                        SubstringInIndexedColumns(corpus[id], rn_args.hazard_label)},
                    3 * rn_args.k)
        /\ rn_out.like_rowids \in
              Limit(ClassificationCandidates(corpus, rn_args.hazard_label), 3 * rn_args.k)
        /\ rn_out.category_rowids \in
              Limit(CategoryCandidates(corpus, rn_args.category), 3 * rn_args.k)
        /\ Fetched \in FetchRows(corpus, CandidateUnion, rn_args.k)

(* C15: the relevance score of every returned record is min(1.0, 0.5 + 0.3
   if fatal + 0.1 if days away > 30, else 0.05 if days away > 0, + 0.1 if
   its id is in the lexical candidate set + 0.05 if its id is in the
   classification candidate set), in hundredths here, and lies in [0, 1]. *)
C15_ConfidenceFormula ==
    Retrieved =>
        \A n \in 1 .. Len(Results) :
            LET id == Fetched[n]
                sum == 50
                       + (IF IsFatal(id) THEN 30 ELSE 0)
                       + (IF DaysAway(id) > 30 THEN 10
                          ELSE IF DaysAway(id) > 0 THEN 5 ELSE 0)
                       + (IF id \in rn_out.fts_rowids THEN 10 ELSE 0)
                       + (IF id \in rn_out.like_rowids THEN 5 ELSE 0)
            IN  /\ Results[n].relevance_score = (IF sum < 100 THEN sum ELSE 100)
                /\ Results[n].relevance_score \in 0 .. 100

(* a record with every bonus, whose sum is clipped, next to one found by
   the category pass alone *)
C15_Witness ==
    /\ Retrieved
    /\ \E n \in 1 .. Len(Results) :
          /\ IsFatal(Fetched[n]) /\ DaysAway(Fetched[n]) > 30
          /\ Fetched[n] \in rn_out.fts_rowids \cap rn_out.like_rowids
          /\ Results[n].relevance_score = 100
    /\ \E n \in 1 .. Len(Results) :
          /\ Fetched[n] \notin rn_out.fts_rowids \cup rn_out.like_rowids
          /\ Results[n].relevance_score < 100

(* found by the category pass alone *)
CategoryOnly(id) ==
    /\ id \in rn_out.category_rowids
    /\ id \notin rn_out.fts_rowids
    /\ id \notin rn_out.like_rowids

(* C16: every fatal incident returned whose id was found only by the
   category pass has relevance exactly 0.8. *)
C16_FatalCategoryOnly ==
    Retrieved =>
        \A n \in 1 .. Len(Results) :
            IsFatal(Fetched[n]) /\ CategoryOnly(Fetched[n])
                => Results[n].relevance_score = 80

(* C16, amended: such an incident has relevance 0.8 plus the days-away bonus:
   0.8 when it has no days away, 0.85 with 1 to 30, 0.9 with more than 30. *)
C16_FatalCategoryOnlyPlusDays ==
    Retrieved =>
        \A n \in 1 .. Len(Results) :
            IsFatal(Fetched[n]) /\ CategoryOnly(Fetched[n])
                => Results[n].relevance_score =
                      80 + (IF DaysAway(Fetched[n]) > 30 THEN 10
                            ELSE IF DaysAway(Fetched[n]) > 0 THEN 5 ELSE 0)

(* a fatal incident without days away found by the category pass alone *)
C16_Witness ==
    /\ Retrieved
    /\ \E n \in 1 .. Len(Results) :
          /\ IsFatal(Fetched[n]) /\ CategoryOnly(Fetched[n])
          /\ DaysAway(Fetched[n]) = 0
          /\ Results[n].relevance_score = 80

(* C17: each of the three passes contributes at most 3*k ids, so the union
   fetched by the final query has at most 9*k. *)
C17_PassesCapped ==
    Retrieved =>
        /\ Cardinality(rn_out.fts_rowids) <= 3 * rn_args.k
        /\ Cardinality(rn_out.like_rowids) <= 3 * rn_args.k
        /\ Cardinality(rn_out.category_rowids) <= 3 * rn_args.k
        /\ rn_out.all_rowids = CandidateUnion
        /\ Cardinality(rn_out.all_rowids) <= 9 * rn_args.k

(* every pass matches more than 3*k rows and is cut to 3*k, once by the
   lexical query and once by its fallback *)
C17_Witness ==
    /\ Retrieved
    /\ Cardinality(ClassificationCandidates(corpus, rn_args.hazard_label)) > 3 * rn_args.k
    /\ Cardinality(CategoryCandidates(corpus, rn_args.category)) > 3 * rn_args.k
    /\ Cardinality(LexicalCandidates(corpus, rn_args.hazard_label).ids) > 3 * rn_args.k
    /\ Cardinality(rn_out.fts_rowids) = 3 * rn_args.k
    /\ Cardinality(rn_out.like_rowids) = 3 * rn_args.k
    /\ Cardinality(rn_out.category_rowids) = 3 * rn_args.k

---------------------------------------------------------------------------
(* Properties of the result built from a row, checked under SpecOutcome *)

EndsWith(str, suffix) ==
    Len(suffix) <= Len(str)
    /\ SubSeq(str, Len(str) - Len(suffix) + 1, Len(str)) = suffix

(* The five labels; the two with a day count are recognised by their text *)
LabelKinds(label) ==
    {kind \in {"fatal", "days away", "job transfer", "other recordable", "unknown"} :
        \/ kind = "fatal" /\ label = "FATAL"
        \/ kind = "days away"
              /\ (label = "Days away from work" \/ EndsWith(label, " days away from work"))
        \/ kind = "job transfer"
              /\ (label = "Job transfer/restriction"
                  \/ EndsWith(label, " days job transfer/restriction"))
        \/ kind = "other recordable" /\ label = "Other recordable case"
        \/ kind = "unknown" /\ label = "Unknown"}

(* C18: format_outcome gives every outcome code, a missing one and any
   integer outside 1..4 included, exactly one of five labels: 1 FATAL, 2 the
   days-away label (with the count when > 0), 3 the job transfer/restriction
   label (with the count when > 0), 4 Other recordable case, anything else
   Unknown; and the fatality flag of a result is true exactly when its label
   is FATAL. *)
C18_OutcomeLabels ==
    fo_called =>
        LET code == fo_row.row.incident_outcome
            away == fo_row.row.dafw_num_away[1]
            transfer == fo_row.row.djtr_num_tr[1]
            label == fo_out.outcome
        IN  /\ LabelKinds(label) =
                  {IF code = <<1>> THEN "fatal"
                   ELSE IF code = <<2>> THEN "days away"
                   ELSE IF code = <<3>> THEN "job transfer"
                   ELSE IF code = <<4>> THEN "other recordable"
                   ELSE "unknown"}
            /\ code = <<2>> =>
                  label = (IF away > 0 THEN ToString(away) \o " days away from work"
                           ELSE "Days away from work")
            /\ code = <<3>> =>
                  label = (IF transfer > 0
                           THEN ToString(transfer) \o " days job transfer/restriction"
                           ELSE "Job transfer/restriction")
            /\ fo_out.is_fatal <=> label = "FATAL"

(* a days-away case whose label carries the count *)
C18_Witness ==
    /\ fo_called
    /\ fo_row.row.incident_outcome = <<2>>
    /\ fo_row.row.dafw_num_away = <<31>>
    /\ fo_out.outcome = "31 days away from work"
    /\ ~fo_out.is_fatal

---------------------------------------------------------------------------
(* Properties of the query expanders, checked under SpecExpand *)

(* The keywords of the seven categories of the taxonomy, in the order the
   branches test them, and the keyword only the retriever's expander tests *)
TaxonomyKeywords ==
    <<{"fall"}, {"electric"}, {"struck"}, {"caught", "compress"}, {"chemical"},
      {"slip", "trip"}, {"fire"}>>

RetrieverOnlyKeywords == {"hit"}

InBranch(category, n) ==
    \E keyword \in TaxonomyKeywords[n] : Contains(Lower(category), keyword)

(* the first branch with a keyword in the category, 0 when there is none *)
FirstBranch(category) ==
    IF \E n \in 1 .. Len(TaxonomyKeywords) : InBranch(category, n)
    THEN CHOOSE n \in 1 .. Len(TaxonomyKeywords) :
            InBranch(category, n) /\ \A m \in 1 .. (n - 1) : ~InBranch(category, m)
    ELSE 0

Unmatched(category) ==
    /\ FirstBranch(category) = 0
    /\ \A keyword \in RetrieverOnlyKeywords : ~Contains(Lower(category), keyword)

(* the one predicate that matches the category against the event type *)
Passthrough(category) == [op |-> "like", field |-> "event_title_pred", pat |-> category]

(* C19: for every category that matches none of the taxonomy keywords the
   expander returns exactly one predicate, the passthrough match of the
   category against the event-type field, in the expansion of the
   retriever's category pass as in the filter of the scorer. *)
C19_UnmatchedIsPassthrough ==
    qe_called /\ Unmatched(qe_category) =>
        /\ qe_out.filter = Passthrough(qe_category)
        /\ qe_out.expansion = <<Passthrough(qe_category)>>

(* a word that names one branch, for each branch *)
BranchWord == <<"fall", "electric", "struck", "caught", "chemical", "slip", "fire">>

(* C20: the expander recognises each of the seven categories whatever the
   letter case and returns a category-specific ordered predicate list for
   it; the result depends on the category string only, and the first branch
   of the fixed order decides for a string with keywords of several. *)
C20_SevenCategoriesRecognised ==
    qe_called /\ FirstBranch(qe_category) > 0 =>
        LET word == BranchWord[FirstBranch(qe_category)]
        IN  /\ qe_out.expansion # << >>
            /\ qe_out.expansion = get_category_expansion(Upper(qe_category))
            /\ qe_out.expansion = get_category_expansion(Lower(qe_category))
            /\ qe_out.filter = get_category_filter(Upper(qe_category))
            /\ qe_out.filter = get_category_filter(Lower(qe_category))
            /\ qe_out.expansion = get_category_expansion(word)
            /\ qe_out.filter = get_category_filter(word)
            /\ \A n \in 1 .. Len(BranchWord) :
                  n # FirstBranch(qe_category) =>
                     /\ qe_out.expansion # get_category_expansion(BranchWord[n])
                     /\ qe_out.filter # get_category_filter(BranchWord[n])

---------------------------------------------------------------------------
(* compute_site_risk as a caller reaches it: the database may be missing,  *)
(* and the registry is the caller's, its entries with or without a         *)
(* category                                                                *)
MaxEntries == 2

(* dict.get(key, default) *)
Get(dict, key, default) == IF key \in DOMAIN dict THEN dict[key] ELSE default

(* What compute_site_risk leaves behind when an exception escapes it *)
SiteRaised(e) == [raised |-> e]

(* risk_scorer.compute_site_risk, lines 183-298: the check of the path
   (lines 204-205), the reading of label and category (lines 215-216), and
   the first statement executed with the filter of an entry (line 91, from
   line 222), which raises when the filter does not parse.  hazard_registry
   is the sequence of the items of the dict. *)
SiteRiskCall(db_path_exists, hazard_registry, rows) ==
    LET entries ==
            [i \in 1 .. Len(hazard_registry) |->
                [hazard_id |-> hazard_registry[i].hazard_id,
                 label |-> Get(hazard_registry[i].hazard_data, "label", ""),
                 category |-> Get(hazard_registry[i].hazard_data, "category", "")]]
    IN  IF ~db_path_exists THEN SiteRaised("FileNotFoundError")
        ELSE IF \E i \in 1 .. Len(entries) :
                   get_category_filter(entries[i].category).op = "malformed"
        THEN SiteRaised("OperationalError")
        ELSE compute_site_risk(entries, rows)

(* Three incidents, and the tables made of the first n of them *)
AssessRows ==
    <<[event_title_pred |-> "Fall to lower level", source_title_pred |-> "Ladder",
       nar_what_happened |-> "Employee fell from a ladder",
       incident_outcome |-> 1, dafw_num_away |-> 0],
      [event_title_pred |-> "Struck by object", source_title_pred |-> "Forklift",
       nar_what_happened |-> "A pallet struck the employee",
       incident_outcome |-> 2, dafw_num_away |-> 100],
      [event_title_pred |-> "Confined space entry", source_title_pred |-> "Tank",
       nar_what_happened |-> "Operator's error while entering a tank",
       incident_outcome |-> 2, dafw_num_away |-> 12]>>

AssessCorpora == {SubSeq(AssessRows, 1, n) : n \in 0 .. Len(AssessRows)}

AssessLabels == {"Floor Hole", "Falling Debris"}
AssessCategories == {"Fall Hazard", "Confined Space", "", "Operator's Error"}

(* the values of a registry: with a category, or without the key *)
HazardData ==
    {[label |-> l, category |-> c] : l \in AssessLabels, c \in AssessCategories}
    \cup {[label |-> l] : l \in AssessLabels}

AssessRegistries ==
    {[i \in 1 .. Len(ds) |-> [hazard_id |-> HazardIds[i], hazard_data |-> ds[i]]] :
     ds \in SeqsUpTo(HazardData, MaxEntries)}

InitAssess ==
    /\ corpus \in AssessCorpora
    /\ ScorerIdle
    /\ RetrieverIdle
    /\ db_exists \in BOOLEAN
    /\ cache = NoCache
    /\ gs_called = FALSE /\ gs_args = NoStatsCall /\ gs_out = NoStats
    /\ procs = << >>
    /\ cs_called = FALSE /\ cs_scores = << >> /\ cs_out = 0
    /\ session = NoSession /\ uploader = FALSE /\ player = << >> /\ seek = << >>

(* A call of compute_site_risk(hazard_registry) *)
AssessCall ==
    /\ ~sr_called
    /\ \E r \in AssessRegistries :
          /\ registry' = r
          /\ sr_out' = SiteRiskCall(db_exists, r, corpus)
    /\ sr_called' = TRUE
    /\ UNCHANGED <<corpus, hs_called, hs_args, hs_out, gr_called, gr_score, gr_out,
                   retriever_vars, service_vars>>

NextAssess == AssessCall

SpecAssess == InitAssess /\ [][NextAssess]_vars

---------------------------------------------------------------------------
(* C21: compute_site_risk raises only if the corpus is unreachable: over a *)
(* database that exists, whatever the ids, labels and categories of the    *)
(* registry (empty, missing, or with quote characters), the call returns a *)
(* result and raises no error.                                             *)
C21_RaisesOnlyIfUnreachable ==
    (sr_called /\ db_exists) => sr_out.raised = ""

---------------------------------------------------------------------------
(* osha_stats.py: the statistics of the six hazard categories and their    *)
(* cache file                                                              *)

(* lines 175-182 *)
StatsCategories ==
    <<"Fall Hazard", "Electrical Hazard", "Struck By", "Caught In/Between",
      "Slip/Trip", "Fire/Explosion">>

(* the keys of the dict of one category, lines 75-85 *)
StatsFields ==
    {"total_count", "fatal_count", "dafw_count", "avg_dafw", "max_dafw", "pct_fatal",
     "top_sources", "top_body_parts", "year_breakdown"}

(* lines 73-85: the statistics of a category without incidents *)
EmptyStats ==
    [total_count |-> 0, fatal_count |-> 0, dafw_count |-> 0, avg_dafw |-> 0,
     max_dafw |-> 0, pct_fatal |-> 0, top_sources |-> << >>, top_body_parts |-> << >>,
     year_breakdown |-> << >>]

TopLimit == 3

(* SELECT value, COUNT( * ) AS n ... GROUP BY value ORDER BY n DESC LIMIT n:
   the lists of <<value, n>> the cursor may yield; groups of the same size
   come in any order *)
RECURSIVE TopGroups(_, _, _)
TopGroups(counts, keys, n) ==
    IF n = 0 \/ keys = {} THEN {<< >>}
    ELSE UNION {{<<<<m, counts[m]>>>> \o rest : rest \in TopGroups(counts, keys \ {m}, n - 1)} :
                m \in {k \in keys : \A j \in keys : counts[j] <= counts[k]}}

(* the sizes of the groups of a text column over the rows ids, NULL and
   the empty text left out *)
GroupCounts(rows, ids, column) ==
    [value \in {rows[i][column] : i \in ids} \ {NullText} |->
        Cardinality({i \in ids : rows[i][column] = value})]

(* ... GROUP BY year_filing_for ORDER BY year_filing_for, and the dict
   comprehension of line 150, as the list of its items: NULL sorts first and
   is left out *)
RECURSIVE YearItems(_, _)
YearItems(rows, ids) ==
    LET years == {rows[i].year_filing_for[1] : i \in {j \in ids : rows[j].year_filing_for # Null}}
    IN  IF years = {} THEN << >>
        ELSE LET first == CHOOSE y \in years : \A z \in years : y <= z
                 of_first == {i \in ids : rows[i].year_filing_for = Some(first)}
             IN  <<<<first, Cardinality(of_first)>>>>
                 \o YearItems(rows, {i \in ids : rows[i].year_filing_for # Null} \ of_first)

MaxOver(f, S) == CHOOSE m \in {f[x] : x \in S} : \A y \in S : f[y] <= m

(* compute_category_stats, lines 60-152: the dicts the call may return.
   avg_dafw and pct_fatal are in tenths. *)
compute_category_stats(rows, category_filter) ==
    LET ids == {i \in 1 .. Len(rows) : Holds(category_filter, rows[i])}
        total_count == Cardinality(ids)
        fatal_count == Cardinality({i \in ids : rows[i].incident_outcome = Some(1)})
        dafw_count == Cardinality({i \in ids : rows[i].incident_outcome = Some(2)})
        away == {i \in ids : rows[i].dafw_num_away[1] > 0}
        days == [i \in ids |-> rows[i].dafw_num_away[1]]
        sources == GroupCounts(rows, ids, "source_title_pred")
        parts == GroupCounts(rows, ids, "part_title_pred")
    IN  IF total_count = 0 THEN {EmptyStats}
        ELSE {[total_count |-> total_count,
               fatal_count |-> fatal_count,
               dafw_count |-> dafw_count,
               avg_dafw |-> IF away = {} THEN 0
                            ELSE RoundTenths(Rat(SumOver(days, away), Cardinality(away))),
               max_dafw |-> MaxOver(days, ids),
               pct_fatal |-> RoundTenths(Rat(100 * fatal_count, total_count)),
               top_sources |-> top_sources,
               top_body_parts |-> top_body_parts,
               year_breakdown |-> YearItems(rows, ids)] :
                 top_sources \in TopGroups(sources, DOMAIN sources, TopLimit),
                 top_body_parts \in TopGroups(parts, DOMAIN parts, TopLimit)}

(* lines 184-194: the dicts all_stats may be, as the lists of their items
   from the n-th category on *)
RECURSIVE AllStatsFrom(_, _)
AllStatsFrom(rows, n) ==
    IF n > Len(StatsCategories) THEN {<< >>}
    ELSE {<<[key |-> StatsCategories[n], value |-> stats]>> \o rest :
            stats \in compute_category_stats(
                          rows, osha_stats_get_category_filter(StatsCategories[n])),
            rest \in AllStatsFrom(rows, n + 1)}

(* json.dump(all_stats, f, indent=2), lines 200-201: the text of a dict,
   cut where the writes to the file may end: the opening brace, one piece
   for each item, the closing brace *)
JsonText(dict) ==
    <<[t |-> "{"]>>
    \o [i \in 1 .. Len(dict) |-> [t |-> "item", key |-> dict[i].key, value |-> dict[i].value]]
    \o <<[t |-> "}"]>>

(* A regular file with the pieces chunks *)
File(chunks) == [state |-> "file", chunks |-> chunks]

json_load_Lenient(file) ==
    LET chunks == file.chunks
        items == {i \in 1 .. Len(chunks) : chunks[i].t = "item"}
        n == Cardinality(items)
    IN  IF file.state # "file" THEN [raised |-> "PermissionError", value |-> << >>]
        ELSE IF chunks = << >> \/ items # 2 .. (n + 1)
        THEN [raised |-> "json.JSONDecodeError", value |-> << >>]
        ELSE [raised |-> "",
              value |-> [i \in 1 .. n |->
                            [key |-> chunks[i + 1].key, value |-> chunks[i + 1].value]]]

(* open(cache_path, 'r', encoding='utf-8') and json.load(f), lines 225-226:
   the exception raised, or the dict decoded.  A file without read
   permission raises PermissionError on open; bytes that are no UTF-8
   raise UnicodeDecodeError on read; a text that is not one complete JSON
   value (an empty file, a text cut short, zero bytes left by a write
   beyond the end) raises json.JSONDecodeError. *)
json_load(file) ==
    LET chunks == file.chunks
        n == Len(chunks)
    IN  IF file.state # "file" THEN [raised |-> "PermissionError", value |-> << >>]
        ELSE IF \E i \in 1 .. n : chunks[i].t = "bytes"
        THEN [raised |-> "UnicodeDecodeError", value |-> << >>]
        ELSE IF /\ n >= 2 /\ chunks[1].t = "{" /\ chunks[n].t = "}"
                /\ \A i \in 2 .. (n - 1) : chunks[i].t = "item"
        THEN [raised |-> "",
              value |-> [i \in 1 .. (n - 2) |->
                            [key |-> chunks[i + 1].key, value |-> chunks[i + 1].value]]]
        ELSE [raised |-> "json.JSONDecodeError", value |-> << >>]

(* What a statistics call leaves behind when an exception escapes it *)
StatsRaised(e, file) == [raised |-> e, value |-> << >>, cache |-> file]

build_stats_cache_Unchecked(db_path_exists, rows, file) ==
    IF file.state = "no-access" THEN {StatsRaised("PermissionError", file)}
    ELSE {[raised |-> "", value |-> all_stats, cache |-> File(JsonText(all_stats))] :
            all_stats \in AllStatsFrom(rows, 1)}

(* build_stats_cache, lines 155-206: the outcomes of the call, each with
   the cache file it leaves.  A cache file that cannot be opened for
   writing lets the PermissionError of line 200 escape. *)
build_stats_cache(db_path_exists, rows, file) ==
    IF ~db_path_exists THEN {StatsRaised("FileNotFoundError", file)}
    ELSE IF file.state = "no-access" THEN {StatsRaised("PermissionError", file)}
    ELSE {[raised |-> "", value |-> all_stats, cache |-> File(JsonText(all_stats))] :
            all_stats \in AllStatsFrom(rows, 1)}

(* get_all_stats, lines 209-232 *)
get_all_stats(db_path_exists, rows, file, use_cache) ==
    IF use_cache /\ file.state # "absent"
    THEN LET loaded == json_load(file)
         IN  IF loaded.raised = ""
             THEN {[raised |-> "", value |-> loaded.value, cache |-> file]}
             ELSE IF loaded.raised \in {"json.JSONDecodeError", "PermissionError"}
             THEN build_stats_cache(db_path_exists, rows, file)
             ELSE {StatsRaised(loaded.raised, file)}
    ELSE build_stats_cache(db_path_exists, rows, file)

(* f"{x:.0f}" of a number of tenths: the nearest integer, a half to even *)
WholeDays(tenths) == RoundScaled(Tenths(tenths), 1)

Has(dict, key) == \E i \in 1 .. Len(dict) : dict[i].key = key
Item(dict, key) == dict[CHOOSE i \in 1 .. Len(dict) : dict[i].key = key].value

(* the keys of the statistics of a category that lines 254-279 read when
   total_count is not 0 *)
HeadlineFields ==
    {"total_count", "fatal_count", "pct_fatal", "avg_dafw", "top_sources", "top_body_parts"}

(* get_headline_stat, lines 249-281, on the dict that get_all_stats
   returned: the sentence returned, as its kind and the values it states,
   or the KeyError of a dict that lacks a key the sentence reads *)
Headline(all_stats, category) ==
    IF ~Has(all_stats, category)
    THEN [raised |-> "", value |-> [text |-> "No statistics available", category |-> category]]
    ELSE LET stats == Item(all_stats, category)
         IN  IF "total_count" \notin DOMAIN stats THEN [raised |-> "KeyError", value |-> << >>]
             ELSE IF stats.total_count = 0
             THEN [raised |-> "",
                   value |-> [text |-> "No incidents found", category |-> category]]
             ELSE IF ~(HeadlineFields \subseteq DOMAIN stats)
             THEN [raised |-> "KeyError", value |-> << >>]
             ELSE [raised |-> "",
                   value |->
                      [text |-> "incidents recorded",
                       category |-> category,
                       total_count |-> stats.total_count,
                       fatal_count |-> stats.fatal_count,
                       pct_fatal |-> stats.pct_fatal,
                       avg_days |-> IF stats.avg_dafw > 0
                                    THEN Some(WholeDays(stats.avg_dafw)) ELSE Null,
                       causes |-> [i \in 1 .. Min(2, Len(stats.top_sources)) |->
                                      stats.top_sources[i][1]],
                       most_affected |-> [i \in 1 .. Min(1, Len(stats.top_body_parts)) |->
                                             stats.top_body_parts[i][1]]]]

(* get_headline_stat, lines 235-281 *)
get_headline_stat(db_path_exists, rows, file, category, use_cache) ==
    {IF o.raised # "" THEN o
     ELSE LET headline == Headline(o.value, category)
          IN  [raised |-> headline.raised, value |-> headline.value, cache |-> o.cache] :
       o \in get_all_stats(db_path_exists, rows, file, use_cache)}

---------------------------------------------------------------------------
(* The store: the database, present or missing, and the cache file *)

(* A row of incidents with the columns that the statistics read, next to
   those of the retriever *)
StoreRow(incident_outcome, dafw_num_away, what, event, source, part, year) ==
    [incident_outcome |-> Some(incident_outcome),
     dafw_num_away |-> Some(dafw_num_away),
     djtr_num_tr |-> Some(0),
     nar_what_happened |-> what,
     nar_before_incident |-> NullText,
     incident_location |-> NullText,
     nar_injury_illness |-> NullText,
     nar_object_substance |-> NullText,
     incident_description |-> NullText,
     event_title_pred |-> event,
     source_title_pred |-> source,
     nature_title_pred |-> NullText,
     part_title_pred |-> part,
     year_filing_for |-> year]

StoreRows ==
    <<StoreRow(1, 0, "Employee fell from a ladder", "Fall to lower level", "Ladder",
               "Head", Some(2023)),
      StoreRow(2, 12, "Worker slipped off the roof", "Fall to lower level", "Roof",
               "Back", Some(2024)),
      StoreRow(2, 100, "A pallet struck the employee", "Struck by object", "Forklift",
               NullText, Null)>>

StoreCorpora == {SubSeq(StoreRows, 1, n) : n \in 0 .. Len(StoreRows)}

(* The dicts that build_stats_cache has written over some corpus *)
SnapshotDicts == UNION {AllStatsFrom(rows, 1) : rows \in StoreCorpora}

(* a dict in which the first category holds total_count only *)
FirstCut(dict) ==
    [i \in 1 .. Len(dict) |->
        IF i = 1 THEN [key |-> dict[i].key,
                       value |-> [total_count |-> dict[i].value.total_count]]
        ELSE dict[i]]

(* The cache files a call may find: none; one it may not read, or neither
   read nor write; an empty one; bytes that are no UTF-8; a text cut short;
   the text of a dict without categories, with the first two categories,
   with a category cut to one key; the text of a snapshot *)
CacheFiles ==
    {NoCache,
     [state |-> "write-only", chunks |-> << >>],
     [state |-> "no-access", chunks |-> << >>],
     File(<< >>),
     File(<<[t |-> "bytes"]>>)}
    \cup {File(SubSeq(JsonText(d), 1, 2)) : d \in SnapshotDicts}
    \cup {File(JsonText(SubSeq(d, 1, n))) : d \in AllStatsFrom(SubSeq(StoreRows, 1, 1), 1),
                                            n \in {0, 2}}
    \cup {File(JsonText(FirstCut(d))) : d \in AllStatsFrom(SubSeq(StoreRows, 1, 1), 1)}
    \cup {File(JsonText(d)) : d \in SnapshotDicts}

HeadlineCategories == {"Fall Hazard", "Struck By", "Confined Space"}
StoreLabels == {"ladder", ""}
StoreRegistries == {r \in AssessRegistries : Len(r) <= 1}

InitStore ==
    /\ db_exists \in BOOLEAN
    /\ corpus \in (IF db_exists THEN StoreCorpora ELSE {<< >>})
    /\ cache \in CacheFiles
    /\ ScorerIdle
    /\ RetrieverIdle
    /\ gs_called = FALSE /\ gs_args = NoStatsCall /\ gs_out = NoStats
    /\ procs = << >>
    /\ cs_called = FALSE /\ cs_scores = << >> /\ cs_out = 0
    /\ session = NoSession /\ uploader = FALSE /\ player = << >> /\ seek = << >>

NoCallYet == ~rn_called /\ ~sr_called /\ ~gs_called

unchanged_by_stats ==
    <<corpus, db_exists, scorer_vars, retriever_vars, procs, cs_called, cs_scores,
      cs_out, ui_vars>>

(* A call of get_all_stats(use_cache=...) *)
GetAllStats ==
    /\ NoCallYet
    /\ \E use_cache \in BOOLEAN :
         \E o \in get_all_stats(db_exists, corpus, cache, use_cache) :
            /\ gs_args' = [function |-> "get_all_stats", category |-> "",
                           use_cache |-> use_cache, cache |-> cache]
            /\ gs_out' = [raised |-> o.raised, value |-> o.value]
            /\ cache' = o.cache
    /\ gs_called' = TRUE
    /\ UNCHANGED unchanged_by_stats

(* A call of get_headline_stat(category, use_cache=...) *)
GetHeadlineStat ==
    /\ NoCallYet
    /\ \E category \in HeadlineCategories, use_cache \in BOOLEAN :
         \E o \in get_headline_stat(db_exists, corpus, cache, category, use_cache) :
            /\ gs_args' = [function |-> "get_headline_stat", category |-> category,
                           use_cache |-> use_cache, cache |-> cache]
            /\ gs_out' = [raised |-> o.raised, value |-> o.value]
            /\ cache' = o.cache
    /\ gs_called' = TRUE
    /\ UNCHANGED unchanged_by_stats

(* A call of build_stats_cache() *)
BuildStatsCache ==
    /\ NoCallYet
    /\ \E o \in build_stats_cache(db_exists, corpus, cache) :
            /\ gs_args' = [function |-> "build_stats_cache", category |-> "",
                           use_cache |-> FALSE, cache |-> cache]
            /\ gs_out' = [raised |-> o.raised, value |-> o.value]
            /\ cache' = o.cache
    /\ gs_called' = TRUE
    /\ UNCHANGED unchanged_by_stats

(* A call of retrieve_narratives while the database is missing: lines
   122-124 of rag_retriever.py raise before the database is opened *)
RetrieveMissing ==
    /\ NoCallYet
    /\ ~db_exists
    /\ \E hazard_label \in StoreLabels, category \in CategoryArgs, k \in 1 .. MaxK :
          rn_args' = [hazard_label |-> hazard_label, category |-> category, k |-> k]
    /\ rn_out' = Raised("FileNotFoundError")
    /\ rn_called' = TRUE
    /\ UNCHANGED <<corpus, scorer_vars, service_vars, qe_called, qe_category, qe_out,
                   fo_called, fo_row, fo_out>>

(* A call of compute_site_risk while the database is missing: lines 204-205
   of risk_scorer.py raise before the database is opened *)
AssessMissing ==
    /\ NoCallYet
    /\ ~db_exists
    /\ \E r \in StoreRegistries : registry' = r
    /\ sr_out' = SiteRaised("FileNotFoundError")
    /\ sr_called' = TRUE
    /\ UNCHANGED <<corpus, hs_called, hs_args, hs_out, gr_called, gr_score, gr_out,
                   retriever_vars, service_vars>>

NextStore ==
    \/ GetAllStats
    \/ GetHeadlineStat
    \/ BuildStatsCache
    \/ RetrieveMissing
    \/ AssessMissing

SpecStore == InitStore /\ [][NextStore]_vars

---------------------------------------------------------------------------
(* The calls of the statistics read gs_args.cache, the cache file they found *)
StatsCalls == {"get_all_stats", "get_headline_stat"}

(* the cache file is the text of a dict *)
Decodes(file) == file.state = "file" /\ json_load(file).raised = ""

(* C22 as stated: when the database is missing, each call of
   retrieve_narratives, compute_site_risk, get_all_stats and
   get_headline_stat raises an error and returns no result. *)
C22_MissingStoreAlwaysRaises ==
    ~db_exists =>
        /\ rn_called => rn_out.raised # ""
        /\ sr_called => sr_out.raised # ""
        /\ (gs_called /\ gs_args.function \in StatsCalls) => gs_out.raised # ""

(* C22, amended: when the database is missing, retrieve_narratives and
   compute_site_risk raise FileNotFoundError; get_all_stats and
   get_headline_stat raise an error and return nothing unless they are
   called with use_cache and the cache file decodes, and then
   get_all_stats returns the cached dict and get_headline_stat answers
   from it. *)
C22_MissingStoreRaisesUnlessCached ==
    ~db_exists =>
        /\ rn_called => rn_out.raised = "FileNotFoundError"
        /\ sr_called => sr_out.raised = "FileNotFoundError"
        /\ (gs_called /\ gs_args.function \in StatsCalls) =>
              IF gs_args.use_cache /\ Decodes(gs_args.cache)
              THEN LET cached == json_load(gs_args.cache).value
                   IN  IF gs_args.function = "get_all_stats"
                       THEN gs_out = [raised |-> "", value |-> cached]
                       ELSE gs_out = Headline(cached, gs_args.category)
              ELSE gs_out.raised # "" /\ gs_out.value = << >>

(* the database is missing and a call that found a cache file cut short
   has raised *)
C22_Witness ==
    /\ ~db_exists
    /\ gs_called /\ gs_args.function \in StatsCalls /\ gs_args.use_cache
    /\ gs_args.cache.state = "file" /\ ~Decodes(gs_args.cache)
    /\ gs_out.raised = "FileNotFoundError"

(* a dict that maps each of the six categories to a dict of the nine
   fields *)
CompleteDict(dict) ==
    /\ {dict[i].key : i \in 1 .. Len(dict)}
         = {StatsCategories[i] : i \in 1 .. Len(StatsCategories)}
    /\ \A i \in 1 .. Len(dict) : DOMAIN dict[i].value = StatsFields

(* the cache file is the text of a dict that maps each of the six
   categories to a dict of the nine fields *)
CompleteDocument(file) == Decodes(file) /\ CompleteDict(json_load(file).value)

(* C23: when the cache file is absent, unreadable, undecodable, or decodes
   to less than a complete document, get_all_stats raises nothing and
   returns the statistics computed from the database, and
   get_headline_stat states those statistics. *)
C23_CacheNeverTrusted ==
    (/\ gs_called /\ db_exists
     /\ gs_args.function \in StatsCalls /\ gs_args.use_cache
     /\ ~CompleteDocument(gs_args.cache)) =>
        /\ gs_out.raised = ""
        /\ gs_args.function = "get_all_stats" => gs_out.value \in AllStatsFrom(corpus, 1)
        /\ gs_args.function = "get_headline_stat" =>
              gs_out.value \in {Headline(all_stats, gs_args.category).value :
                                  all_stats \in AllStatsFrom(corpus, 1)}

---------------------------------------------------------------------------
(* Calls in flight.  Each call of retrieve_narratives and of
   compute_site_risk opens its own connection (rag_retriever.py line 126,
   risk_scorer.py line 207) and runs its statements one after the other;
   between two statements of a call, statements of other calls may run.
   procs holds the calls started, each with its position and its local
   variables. *)
MaxCalls == 2

(* The rows as the scorer's statements read them: the columns of its
   filters and the two numbers.  A NULL incident_outcome equals no code,
   and is read as 0, which is no code either. *)
ScorerView(rows) ==
    [i \in 1 .. Len(rows) |->
        [event_title_pred |-> rows[i].event_title_pred,
         source_title_pred |-> rows[i].source_title_pred,
         nar_what_happened |-> rows[i].nar_what_happened,
         incident_outcome |-> OrZero(rows[i].incident_outcome),
         dafw_num_away |-> OrZero(rows[i].dafw_num_away)]]

SharedCorpora == {SubSeq(RetrievalKinds, 1, n) : n \in {0, 4}}

RetrievalCalls ==
    {[hazard_label |-> "floor hole", category |-> "Fall Hazard", k |-> 1],
     [hazard_label |-> "Roof", category |-> None, k |-> 2]}

ScoringCalls ==
    {<< >>,
     <<[hazard_id |-> "hazard_001", label |-> "Floor Hole", category |-> "Fall Hazard"]>>}

(* the local variables of a call of retrieve_narratives at its start,
   lines 132, 164, 177 *)
RetrievalStarted(args) ==
    [call |-> "retrieve_narratives", args |-> args, pc |-> "fts",
     fts_failed |-> FALSE, fts_rowids |-> {}, like_rowids |-> {},
     category_rowids |-> {}, out |-> NoRetrieval]

(* the local variables of a call of compute_site_risk at its start, lines
   210-211: the entry it is at, the answers of the queries run for that
   entry, the breakdown so far *)
ScoringStarted(hazard_registry) ==
    [call |-> "compute_site_risk", registry |-> hazard_registry,
     pc |-> IF hazard_registry = << >> THEN "finish" ELSE "query",
     entry |-> 1, answers |-> << >>, breakdown |-> << >>, out |-> NoSite]

Local_Shared(calls, p) ==
    IF calls[p].call # "retrieve_narratives" THEN calls[p]
    ELSE calls[CHOOSE q \in DOMAIN calls :
                  /\ calls[q].call = "retrieve_narratives"
                  /\ \A r \in 1 .. (q - 1) : calls[r].call # "retrieve_narratives"]

(* the local variables of call p: its own *)
Local(calls, p) == calls[p]

InitShared ==
    /\ corpus \in SharedCorpora
    /\ ScorerIdle
    /\ RetrieverIdle
    /\ ServiceIdle

unchanged_by_calls ==
    <<corpus, scorer_vars, retriever_vars, db_exists, cache, gs_called, gs_args, gs_out,
      cs_called, cs_scores, cs_out, ui_vars>>

(* A call of retrieve_narratives starts: lines 122-128 *)
StartRetrieval ==
    /\ Len(procs) < MaxCalls
    /\ \E args \in RetrievalCalls : procs' = Append(procs, RetrievalStarted(args))
    /\ UNCHANGED unchanged_by_calls

(* A call of compute_site_risk starts: lines 201-211 *)
StartScoring ==
    /\ Len(procs) < MaxCalls
    /\ \E hazard_registry \in ScoringCalls :
          procs' = Append(procs, ScoringStarted(hazard_registry))
    /\ UNCHANGED unchanged_by_calls

(* lines 131-161: the lexical pass of call p *)
LexicalPass(p) ==
    /\ procs[p].call = "retrieve_narratives" /\ procs[p].pc = "fts"
    /\ LET own == Local(procs, p)
           lexical == LexicalCandidates(corpus, own.args.hazard_label)
       IN  \E fts_rowids \in Limit(lexical.ids, CandidateLimit(own.args.k)) :
              procs' = [procs EXCEPT ![p] =
                          [procs[p] EXCEPT !.pc = "like", !.fts_failed = lexical.failed,
                                      !.fts_rowids = fts_rowids]]
    /\ UNCHANGED unchanged_by_calls

(* lines 164-174: the classification pass of call p *)
ClassificationPass(p) ==
    /\ procs[p].call = "retrieve_narratives" /\ procs[p].pc = "like"
    /\ LET own == Local(procs, p)
       IN  \E like_rowids \in Limit(ClassificationCandidates(corpus, own.args.hazard_label),
                                    CandidateLimit(own.args.k)) :
              procs' = [procs EXCEPT ![p] =
                          [procs[p] EXCEPT !.pc = "category", !.like_rowids = like_rowids]]
    /\ UNCHANGED unchanged_by_calls

(* lines 177-188: the category pass of call p *)
CategoryPass(p) ==
    /\ procs[p].call = "retrieve_narratives" /\ procs[p].pc = "category"
    /\ LET own == Local(procs, p)
       IN  \E category_rowids \in Limit(CategoryCandidates(corpus, own.args.category),
                                        CandidateLimit(own.args.k)) :
              procs' = [procs EXCEPT ![p] =
                          [procs[p] EXCEPT !.pc = "fetch", !.category_rowids = category_rowids]]
    /\ UNCHANGED unchanged_by_calls

(* lines 191-257: the fetch of call p, and its return *)
FetchPass(p) ==
    /\ procs[p].call = "retrieve_narratives" /\ procs[p].pc = "fetch"
    /\ LET own == Local(procs, p)
           all_rowids == own.fts_rowids \cup own.like_rowids \cup own.category_rowids
       IN  \E fetched \in FetchRows(corpus, all_rowids, own.args.k) :
              procs' = [procs EXCEPT ![p] =
                          [procs[p] EXCEPT
                             !.pc = "done",
                             !.out =
                                [raised |-> "",
                                 fts_failed |-> own.fts_failed,
                                 fts_rowids |-> own.fts_rowids,
                                 like_rowids |-> own.like_rowids,
                                 category_rowids |-> own.category_rowids,
                                 all_rowids |-> all_rowids,
                                 fetched |-> fetched,
                                 results |->
                                    [n \in 1 .. Len(fetched) |->
                                        ResultOf(corpus[fetched[n]],
                                                 fetched[n] \in own.fts_rowids,
                                                 fetched[n] \in own.like_rowids)]]]]
    /\ UNCHANGED unchanged_by_calls

(* risk_scorer.py lines 222-225: the next of the four queries of the entry
   call p is at; after the fourth, lines 228-249, the row of the entry *)
Query(p) ==
    /\ procs[p].call = "compute_site_risk" /\ procs[p].pc = "query"
    /\ LET own == Local(procs, p)
           entry == own.registry[own.entry]
           rows == ScorerView(corpus)
           category_filter == get_category_filter(entry.category)
           n == Len(own.answers) + 1
           answer ==
               IF n = 1 THEN query_frequency(rows, category_filter)
               ELSE IF n = 2 THEN query_fatality_count(rows, category_filter)
               ELSE IF n = 3 THEN query_avg_dafw(rows, category_filter)
               ELSE query_severe_count(rows, category_filter)
           answers == Append(own.answers, answer)
       IN  procs' = [procs EXCEPT ![p] =
              IF n < 4 THEN [procs[p] EXCEPT !.answers = answers]
              ELSE [procs[p] EXCEPT
                      !.answers = << >>,
                      !.breakdown =
                          Append(own.breakdown,
                                 HazardRowFrom(entry, answers[1], answers[2], answers[3],
                                               answers[4])),
                      !.entry = own.entry + 1,
                      !.pc = IF own.entry = Len(own.registry) THEN "finish" ELSE "query"]]
    /\ UNCHANGED unchanged_by_calls

(* lines 251-298: call p closes its connection and returns *)
Finish(p) ==
    /\ procs[p].call = "compute_site_risk" /\ procs[p].pc = "finish"
    /\ LET own == Local(procs, p)
       IN  procs' = [procs EXCEPT ![p] =
                        [procs[p] EXCEPT !.pc = "done", !.out = SiteRiskFrom(own.breakdown)]]
    /\ UNCHANGED unchanged_by_calls

NextShared ==
    \/ StartRetrieval
    \/ StartScoring
    \/ \E p \in DOMAIN procs : LexicalPass(p)
    \/ \E p \in DOMAIN procs : ClassificationPass(p)
    \/ \E p \in DOMAIN procs : CategoryPass(p)
    \/ \E p \in DOMAIN procs : FetchPass(p)
    \/ \E p \in DOMAIN procs : Query(p)
    \/ \E p \in DOMAIN procs : Finish(p)

SpecShared == InitShared /\ [][NextShared]_vars

(* the results call c may return when it runs alone over rows *)
Alone(c, rows) ==
    IF c.call = "retrieve_narratives"
    THEN retrieve_narratives(rows, c.args.hazard_label, c.args.category, c.args.k)
    ELSE {compute_site_risk(c.registry, ScorerView(rows))}

(* C24: no step of a retrieval or scoring call changes the corpus, and
   however the statements of the calls interleave, a call that has
   returned has returned a result it may return when run alone on that
   corpus. *)
C24_ReadOnlyAndIsolated ==
    [][/\ corpus' = corpus
       /\ \A p \in DOMAIN procs' :
             procs'[p].pc = "done" => procs'[p].out \in Alone(procs'[p], corpus)]_vars

(* a scoring call with an entry has started and returned while a retrieval
   call over a corpus with rows was between its passes *)
C24_Witness ==
    /\ Len(procs) = 2
    /\ procs[1].call = "retrieve_narratives" /\ procs[1].pc = "fetch"
    /\ procs[2].call = "compute_site_risk" /\ procs[2].pc = "done"
    /\ procs[2].registry # << >>
    /\ corpus # << >>

---------------------------------------------------------------------------
(* the rows that satisfy one of the predicates of the expansion of the
   category of the call: ExpansionHit(row, get_category_expansion(category)),
   looked up in ExpansionTable *)
ExpansionMatches ==
    {i \in Ids(corpus) : ExpansionTable[rn_args.category][corpus[i]]}

(* C25: when retrieve_narratives is called with category None or "", the
   category candidate set is empty and every record returned is a lexical
   or a classification candidate; with any other category the category
   candidates are rows that satisfy one of the predicates of
   get_category_expansion(category): all of them, or 3*k of them when
   there are more. *)
C25_CategoryPassOnlyWhenSupplied ==
    Retrieved =>
        IF rn_args.category \in {None, ""}
        THEN /\ rn_out.category_rowids = {}
             /\ Returned \subseteq (rn_out.fts_rowids \cup rn_out.like_rowids)
        ELSE /\ rn_out.category_rowids \subseteq ExpansionMatches
             /\ Cardinality(rn_out.category_rowids)
                  = Min(Cardinality(ExpansionMatches), CandidateLimit(rn_args.k))

(* a call with a category that more than 3*k rows match, whose category
   pass found rows that no other pass found *)
C25_Witness ==
    /\ Retrieved
    /\ rn_args.category = "Fall Hazard"
    /\ Cardinality(ExpansionMatches) > CandidateLimit(rn_args.k)
    /\ rn_out.category_rowids \ (rn_out.fts_rowids \cup rn_out.like_rowids) # {}

---------------------------------------------------------------------------
(* what a breakdown row states of the incidents of its category *)
Aggregates(row) == <<row.frequency_count, row.fatal_count, row.avg_dafw, row.final_score>>

(* C26: in the breakdown of compute_site_risk, two rows with the same
   category state the same frequency, fatal count, average days away and
   final_score, and each row states what an entry of that category with
   another id and label states when it is the only entry of the registry. *)
C26_AggregatesDependOnCategoryOnly ==
    (sr_called /\ sr_out.raised = "") =>
        /\ \A i, j \in 1 .. Len(Rows) :
              Rows[i].category = Rows[j].category => Aggregates(Rows[i]) = Aggregates(Rows[j])
        /\ \A i \in 1 .. Len(Rows) :
              Aggregates(Rows[i])
                = Aggregates(HazardRow([hazard_id |-> "", label |-> "",
                                        category |-> Rows[i].category], corpus))

(* two entries with the same category, other ids and labels, over a corpus
   with incidents of that category *)
C26_Witness ==
    /\ sr_called /\ sr_out.raised = ""
    /\ Len(Rows) = 2
    /\ Rows[1].category = Rows[2].category
    /\ Rows[1].label # Rows[2].label
    /\ Rows[1].hazard_id # Rows[2].hazard_id
    /\ Rows[1].frequency_count > 0

---------------------------------------------------------------------------
(* The Streamlit front end, app.py.  Streamlit runs the script from top to
   bottom after each interaction; st.rerun() ends the run and starts
   another.  Times are in tenths of a second, the player's start_time in
   whole seconds.  session.messages takes no part in seeking and is left
   out. *)
MaxSeconds == 15

Max0(t) == IF t < 0 THEN 0 ELSE t

(* lines 245-254: the uploader block, which every run executes *)
UploaderBlock(state, uploaded) ==
    IF uploaded
    THEN [state EXCEPT !.video_bytes = TRUE, !.play_from = 0, !.last_jump = Null]
    ELSE state

(* seek_to, lines 207-209 *)
seek_to(state, timestamp_s) ==
    [state EXCEPT !.play_from = Max0(timestamp_s), !.last_jump = Some(Max0(timestamp_s))]

(* line 311: start_time=int(play_from), of a play_from that is not negative *)
StartTime(state) == state.play_from \div 10

(* a run of the script in which no button is clicked: the uploader block,
   then, with a video, the player *)
ScriptRun(state, uploaded) ==
    LET after == UploaderBlock(state, uploaded)
    IN  [session |-> after,
         player |-> IF after.video_bytes THEN Some(StartTime(after)) ELSE Null]

(* a run in which a button of the video card is clicked: the uploader
   block, seek_to with the timestamp the button computes from the session
   state, st.rerun(), and the run that follows *)
ClickRun(state, uploaded, timestamp_of(_)) ==
    LET after == UploaderBlock(state, uploaded)
    IN  ScriptRun(seek_to(after, timestamp_of(after)), uploaded)

(* answer_question, lines 181-204; hint is what _parse_timestamp_hint
   finds in the question *)
answer_question(video_bytes, hint) == IF ~video_bytes THEN Null ELSE hint

(* lines 371-388: Send, with the run that st.rerun() starts *)
SendRun(state, uploaded, hint) ==
    LET after == UploaderBlock(state, uploaded)
        timestamp_s == answer_question(after.video_bytes, hint)
    IN  IF timestamp_s # Null THEN ScriptRun(seek_to(after, timestamp_s[1]), uploaded)
        ELSE ScriptRun(after, uploaded)

StartInputs == 0 .. MaxSeconds * 10
QuickJumps == {-100, -50, 50, 100}
Hints == {Null, Some(0), Some(125)}

InitUI ==
    /\ corpus = << >>
    /\ ScorerIdle
    /\ RetrieverIdle
    /\ ServiceIdle

unchanged_by_ui == <<corpus, scorer_vars, retriever_vars, stats_vars>>

(* the user drops a file into the uploader *)
Upload ==
    /\ ~uploader
    /\ uploader' = TRUE
    /\ session' = ScriptRun(session, TRUE).session
    /\ player' = ScriptRun(session, TRUE).player
    /\ seek' = Null
    /\ UNCHANGED unchanged_by_ui

(* the user removes the file from the uploader; session.video_bytes stays *)
RemoveFile ==
    /\ uploader
    /\ uploader' = FALSE
    /\ session' = ScriptRun(session, FALSE).session
    /\ player' = ScriptRun(session, FALSE).player
    /\ seek' = Null
    /\ UNCHANGED unchanged_by_ui

(* lines 284-287: Jump, with the value of the Start input *)
Jump ==
    /\ player # Null
    /\ \E start_s \in StartInputs :
          LET StartValue(state) == start_s
              run == ClickRun(session, uploader, StartValue)
          IN  /\ session' = run.session
              /\ player' = run.player
              /\ seek' = Some(start_s)
    /\ UNCHANGED <<uploader, unchanged_by_ui>>

(* lines 288-291: Reset *)
Reset ==
    /\ player # Null
    /\ LET Zero(state) == 0
           run == ClickRun(session, uploader, Zero)
       IN  /\ session' = run.session
           /\ player' = run.player
           /\ seek' = Some(0)
    /\ UNCHANGED <<uploader, unchanged_by_ui>>

(* lines 294-305: a quick-jump button *)
QuickJump ==
    /\ player # Null
    /\ \E delta \in QuickJumps :
          LET Shifted(state) == state.play_from + delta
              run == ClickRun(session, uploader, Shifted)
          IN  /\ Shifted(UploaderBlock(session, uploader)) <= MaxSeconds * 10
              /\ session' = run.session
              /\ player' = run.player
              /\ seek' = Some(Shifted(UploaderBlock(session, uploader)))
    /\ UNCHANGED <<uploader, unchanged_by_ui>>

(* lines 371-388: Send, with a question *)
Send ==
    /\ \E hint \in Hints :
          LET run == SendRun(session, uploader, hint)
          IN  /\ session' = run.session
              /\ player' = run.player
              /\ seek' = answer_question(UploaderBlock(session, uploader).video_bytes, hint)
    /\ UNCHANGED <<uploader, unchanged_by_ui>>

NextUI ==
    \/ Upload
    \/ RemoveFile
    \/ Jump
    \/ Reset
    \/ QuickJump
    \/ Send

SpecUI == InitUI /\ [][NextUI]_vars

(* C27: after seek_to(t) and the rerun that follows it, with the video
   still held by the uploader, the player starts at max(0, t) and
   last_jump holds max(0, t); play_from is never negative. *)
C27_SeekTakesEffect ==
    /\ session.play_from >= 0
    /\ (seek # Null /\ uploader) =>
          /\ player = Some(Max0(seek[1]) \div 10) /\ Max0(seek[1]) % 10 = 0
          /\ session.last_jump = Some(Max0(seek[1]))

---------------------------------------------------------------------------
(* The composite site score as a function of the final scores of the
   registry, lines 259-272: cs_scores grows by one hazard at a time, and
   cs_out is the composite of the scores so far. *)
MaxHazards == 3

(* final scores, in tenths *)
ScoreValues == {0, 205, 400, 800, 1000}

InitComposite ==
    /\ corpus = << >>
    /\ ScorerIdle
    /\ RetrieverIdle
    /\ ServiceIdle

(* compute_site_risk over the registry with one more hazard *)
AddHazard ==
    /\ Len(cs_scores) < MaxHazards
    /\ \E added \in ScoreValues :
          /\ cs_scores' = Append(cs_scores, added)
          /\ cs_out' = CompositeScore(cs_scores')
    /\ cs_called' = TRUE
    /\ UNCHANGED <<corpus, scorer_vars, retriever_vars, db_exists, cache, gs_called,
                   gs_args, gs_out, procs, ui_vars>>

NextComposite == AddHazard

SpecComposite == InitComposite /\ [][NextComposite]_vars

(* the final score of the hazard added last *)
Added == cs_scores'[Len(cs_scores')]

(* C28 as stated: adding a hazard to a registry never lowers the composite
   site score. *)
C28_AddingNeverLowers ==
    [][cs_out' >= cs_out]_vars

(* C28, amended: adding a hazard whose final_score is at least the
   composite site score of the registry never lowers the composite. *)
C28_AddingAtLeastCompositeNeverLowers ==
    [][Added >= cs_out => cs_out' >= cs_out]_vars

(* a third hazard was added that scores at least the composite of the
   other two and less than the highest of them, and the composite rose *)
C28_Witness ==
    /\ cs_called /\ Len(cs_scores) = 3
    /\ LET before == CompositeScore(SubSeq(cs_scores, 1, 2))
       IN  /\ cs_scores[3] >= before
           /\ cs_scores[3] < cs_scores[1]
           /\ cs_out > before

---------------------------------------------------------------------------
(* Incidents to tell the three mappings of a category apart *)
ProbeRows ==
    {StoreRow(1, 0, "Employee fell from a ladder", "Fall to lower level", "Ladder",
              "Head", Some(2023)),
     StoreRow(2, 30, "A ladder tipped onto the employee", "Struck by object", "Ladder",
              "Arm", Some(2023)),
     StoreRow(2, 3, "Solvent splashed from a drum", "Exposure to harmful substance",
              "Chemical drum", "Eye", Some(2024)),
     StoreRow(2, 14, "Employee tripped over a hose", "Fall on same level", "Hose",
              "Knee", Some(2024)),
     StoreRow(1, 0, "A gas line exploded", "Fire or explosion", "Gas line",
              "Body", Some(2024))}

(* the rows of a set that each mapping of the category selects *)
SelectedByRetriever(rows) == {row \in rows : ExpansionHit(row, qe_out.expansion)}
SelectedByScorer(rows) == {row \in rows : Holds(qe_out.filter, row)}
SelectedByStats(rows) == {row \in rows : Holds(qe_out.stats_filter, row)}

(* C29: for every category string, the predicates of the retriever's
   category pass, the filter of the scorer's queries and the filter of the
   statistics module select the same incidents. *)
C29_SameRecordsSelected ==
    qe_called =>
        /\ SelectedByRetriever(ProbeRows) = SelectedByScorer(ProbeRows)
        /\ SelectedByScorer(ProbeRows) = SelectedByStats(ProbeRows)

---------------------------------------------------------------------------
(* Calls of get_all_stats in flight while the cache file is rewritten.
   open(cache_path, 'w') truncates the file (line 200); json.dump hands the
   text to the file object piece by piece, and the file object writes what
   it has buffered at its own offset whenever the buffer is full and when
   the file is closed.  The buffer of the model holds BufferPieces pieces
   of JsonText.  A reader reads what the file holds from its offset on
   until a read returns nothing. *)
BufferPieces == 3

Hole == [t |-> "hole"]

(* a write of pieces at the offset of the writer, after the first `offset'
   pieces of the file: the file grows, and what it skips reads as NUL
   bytes *)
WriteAt(chunks, offset, pieces) ==
    LET end == offset + Len(pieces)
    IN  [i \in 1 .. (IF Len(chunks) > end THEN Len(chunks) ELSE end) |->
            IF i > offset /\ i <= end THEN pieces[i - offset]
            ELSE IF i <= Len(chunks) THEN chunks[i] ELSE Hole]

RebuildCorpus == SubSeq(StoreRows, 1, 1)

(* the snapshots of the corpus, and those left by an earlier corpus *)
FreshSnapshots == AllStatsFrom(RebuildCorpus, 1)
StaleSnapshots == AllStatsFrom(<< >>, 1)

StatsStarted(use_cache) ==
    [call |-> "get_all_stats", use_cache |-> use_cache, pc |-> "exists",
     offset |-> 0, text |-> << >>, all_stats |-> << >>, out |-> NoStats]

InitRebuild ==
    /\ corpus = RebuildCorpus
    /\ ScorerIdle
    /\ RetrieverIdle
    /\ db_exists = TRUE
    /\ cache \in {NoCache} \cup {File(JsonText(d)) : d \in FreshSnapshots \cup StaleSnapshots}
    /\ gs_called = FALSE /\ gs_args = NoStatsCall /\ gs_out = NoStats
    /\ procs = << >>
    /\ cs_called = FALSE /\ cs_scores = << >> /\ cs_out = 0
    /\ session = NoSession /\ uploader = FALSE /\ player = << >> /\ seek = << >>

unchanged_by_rebuild ==
    <<corpus, scorer_vars, retriever_vars, db_exists, gs_called, gs_args, gs_out,
      cs_called, cs_scores, cs_out, ui_vars>>

(* get_all_stats(use_cache) is called *)
StartStats ==
    /\ Len(procs) < MaxCalls
    /\ \E use_cache \in BOOLEAN : procs' = Append(procs, StatsStarted(use_cache))
    /\ UNCHANGED <<cache, unchanged_by_rebuild>>

(* line 223: use_cache and cache_path.exists() *)
CacheExists(p) ==
    /\ procs[p].pc = "exists"
    /\ procs' = [procs EXCEPT ![p].pc =
                    IF procs[p].use_cache /\ cache.state # "absent" THEN "read"
                    ELSE "compute"]
    /\ UNCHANGED <<cache, unchanged_by_rebuild>>

(* lines 225-226: a read of the file from the offset of call p on; a read
   that returns nothing ends the reading *)
ReadCache(p) ==
    /\ procs[p].pc = "read"
    /\ LET own == procs[p]
           n == Len(cache.chunks)
       IN  procs' = [procs EXCEPT ![p] =
              IF own.offset >= n THEN [own EXCEPT !.pc = "parse"]
              ELSE [own EXCEPT !.text = own.text \o SubSeq(cache.chunks, own.offset + 1, n),
                               !.offset = n]]
    /\ UNCHANGED <<cache, unchanged_by_rebuild>>

(* lines 226-229: json.load parses what was read; the text of a dict is
   returned, a json.JSONDecodeError leads on to the rebuild *)
ParseCache(p) ==
    /\ procs[p].pc = "parse"
    /\ LET loaded == json_load(File(procs[p].text))
       IN  procs' = [procs EXCEPT ![p] =
              IF loaded.raised = ""
              THEN [procs[p] EXCEPT !.pc = "done",
                                    !.out = [raised |-> "", value |-> loaded.value]]
              ELSE IF loaded.raised = "json.JSONDecodeError"
              THEN [procs[p] EXCEPT !.pc = "compute"]
              ELSE [procs[p] EXCEPT !.pc = "done",
                                    !.out = [raised |-> loaded.raised, value |-> << >>]]]
    /\ UNCHANGED <<cache, unchanged_by_rebuild>>

(* build_stats_cache, lines 168-196: the statistics of the six categories *)
ComputeStats(p) ==
    /\ procs[p].pc = "compute"
    /\ \E all_stats \in AllStatsFrom(corpus, 1) :
          procs' = [procs EXCEPT ![p] = [procs[p] EXCEPT !.pc = "open",
                                                         !.all_stats = all_stats]]
    /\ UNCHANGED <<cache, unchanged_by_rebuild>>

(* line 200: open(cache_path, 'w') creates the file or truncates it *)
OpenCache(p) ==
    /\ procs[p].pc = "open"
    /\ cache' = File(<< >>)
    /\ procs' = [procs EXCEPT ![p] = [procs[p] EXCEPT !.pc = "write", !.offset = 0]]
    /\ UNCHANGED unchanged_by_rebuild

(* lines 200-206: the buffer is written to the file, when it is full or,
   with the rest of the text, when the file is closed; all_stats is
   returned after that *)
WriteCache(p) ==
    /\ procs[p].pc = "write"
    /\ LET own == procs[p]
           text == JsonText(own.all_stats)
           k == Min(own.offset + BufferPieces, Len(text))
       IN  /\ cache' = File(WriteAt(cache.chunks, own.offset,
                                    SubSeq(text, own.offset + 1, k)))
           /\ procs' = [procs EXCEPT ![p] =
                 IF k < Len(text) THEN [own EXCEPT !.offset = k]
                 ELSE [own EXCEPT !.offset = k, !.pc = "done",
                                  !.out = [raised |-> "", value |-> own.all_stats]]]
    /\ UNCHANGED unchanged_by_rebuild

NextRebuild ==
    \/ StartStats
    \/ \E p \in DOMAIN procs : CacheExists(p)
    \/ \E p \in DOMAIN procs : ReadCache(p)
    \/ \E p \in DOMAIN procs : ParseCache(p)
    \/ \E p \in DOMAIN procs : ComputeStats(p)
    \/ \E p \in DOMAIN procs : OpenCache(p)
    \/ \E p \in DOMAIN procs : WriteCache(p)

SpecRebuild == InitRebuild /\ [][NextRebuild]_vars

(* C30: however calls of get_all_stats interleave with a rebuild that is
   writing the cache file, a call that has returned has raised nothing and
   returned a dict with the six categories and their nine fields each,
   which is a snapshot some rebuild has computed, never a part of one. *)
C30_ReadersSeeWholeSnapshots ==
    \A p \in DOMAIN procs :
        procs[p].pc = "done" =>
            /\ procs[p].out.raised = ""
            /\ CompleteDict(procs[p].out.value)
            /\ procs[p].out.value \in FreshSnapshots \cup StaleSnapshots

(* a call has read a file that a rebuild had written in part, and has
   returned the statistics of the six categories *)
C30_Witness ==
    \E p \in DOMAIN procs :
        /\ procs[p].pc = "done" /\ procs[p].out.raised = ""
        /\ procs[p].use_cache
        /\ Len(procs[p].text) \in 1 .. (Len(StatsCategories) + 1)
        /\ procs[p].text[1].t = "{"
        /\ CompleteDict(procs[p].out.value)

=============================================================================
